---- MODULE Spec2Model ----
(***************************************************************************)
(* Model of the uPic auto-uploader plugin: the paste / drop relay tasks    *)
(* of UPicAutoUploaderPlugin (dedup guard, temp-file staging, vault copy,  *)
(* upload, document patch, cleanup) and the settings / tool-discovery      *)
(* state of SettingsManager and UPicUploader.                              *)
(*                                                                         *)
(* Strings are tuples of string atoms ("image.png" is <<"image",".",       *)
(* "png">>), so concatenation, lastIndexOf and substring tests are         *)
(* computed.  The document is the sequence of the image references it      *)
(* holds, each [alt, path] standing for the text ![alt](path).             *)
(***************************************************************************)
EXTENDS Integers, Sequences, FiniteSets, TLC

\* ---------------------------------------------------------------- bounds
MaxTasks == 2
MaxClock == 1
MaxSize == 2
MaxEdits == 1
MaxCallers == 2
MaxOps == 2
MaxNow == 3
MaxRefs == 2
MaxLine == 3
MaxLines == 2
MaxPlugins == 2
MaxLoads == 4
MaxTested == 3

\* ---------------------------------------------------------------- strings
NoPath == <<>>

FileName == <<"image", ".", "png">>

Tasks == 1..MaxTasks

Files == [name : {FileName}, size : 1..MaxSize, lastModified : {0}]

RECURSIVE LastIndexOf(_, _, _)
LastIndexOf(s, c, i) ==
    IF i = 0 THEN 0
    ELSE IF s[i] = c THEN i ELSE LastIndexOf(s, c, i - 1)

IsPrefixAt(s, sub, i) ==
    /\ i + Len(sub) - 1 <= Len(s)
    /\ \A k \in 1..Len(sub) : s[i + k - 1] = sub[k]

Includes(s, sub) == \E i \in 1..(Len(s) + 1) : IsPrefixAt(s, sub, i)

StartsWith(s, pre) == IsPrefixAt(s, pre, 1)

\* ---------------------------------------------------------------- state
VARIABLES
    isDesktop,        \* Platform.isDesktop
    processingFiles,  \* UPicAutoUploaderPlugin.processingFiles
    doc,              \* the editor's text: its image references in order
    tmp,              \* os.tmpdir(): path -> [bytes, owner] or NoFile
    vault,            \* vault root: file name -> bytes or NoFile
    showNotifications, \* settings.showNotifications
    toolKeepsName,    \* whether the URLs uPic prints keep the uploaded file's name
    edits,            \* number of edits the user made to the text
    task,             \* the processImageFile / processDroppedImageFileFixed calls
    pluginSettings,   \* UPicAutoUploaderPlugin.settings
    managerSettings,  \* SettingsManager.settings
    uploaderSettings, \* UPicUploader.settings
    detectedUpicPath, \* UPicUploader.detectedUpicPath
    availabilityCache, \* UPicUploader.availabilityCache
    lastCheckTime,    \* UPicUploader.lastCheckTime
    now,              \* Date.now() in units of cacheTimeout, counted from 1 (0 is the
                      \* lastCheckTime of an uploader that never checked)
    env,              \* the machine: where uPic is installed, whether it is running
    disc,             \* the getAvailableUPicPath calls
    op,               \* the settings operation in progress
    hist,             \* history: settings updates seen by the uploader, operations done
    batch,            \* the CommandManager.uploadAllImages call
    upload,           \* the UPicUploader.uploadFile call and the processes it started
    timer             \* the static fields of UPicUploader, the interval timers that
                      \* exist, the plugin instances that are loaded

relayVars == <<isDesktop, showNotifications, toolKeepsName, processingFiles, doc, tmp, vault,
               edits, task>>

locVars == <<pluginSettings, managerSettings, uploaderSettings, detectedUpicPath,
             availabilityCache, lastCheckTime, now, env, disc, op, hist>>

cmdVars == <<batch, upload, timer>>

vars == <<relayVars, locVars, cmdVars>>

NoFile == [bytes |-> 0, owner |-> 0]
UserBytes == MaxSize + 1

\* fileId = `${file.name}-${file.size}-${file.lastModified}`
FileId(f) == <<f.name, f.size, f.lastModified>>

\* nameWithoutExt + "_" + Date.now() + extension
StampedName(fileName, ts) ==
    LET dot == LastIndexOf(fileName, ".", Len(fileName))
        nameWithoutExt == SubSeq(fileName, 1, dot - 1)
        extension == IF dot = 0 THEN fileName
                     ELSE SubSeq(fileName, dot, Len(fileName))
    IN nameWithoutExt \o <<"_", ToString(ts)>> \o extension

TempPaths == {f.name : f \in Files} \cup
             {StampedName(f.name, ts) : f \in Files, ts \in 0..MaxClock}

VaultNames == {f.name : f \in Files}

\* the URL uPic prints for the upload of task t; depending on how the image host
\* is configured the URL keeps the file name or not
UrlOf(t, keepName) ==
    IF keepName THEN <<"https://", "cdn", ToString(t), "/">> \o FileName
    ELSE <<"https://", "cdn", ToString(t)>>

Urls == {UrlOf(t, k) : t \in Tasks, k \in BOOLEAN}

IdleTask == [pc |-> "idle", kind |-> "none", file |-> [name |-> FileName, size |-> 1, lastModified |-> 0],
             staging |-> NoPath, temp1 |-> NoPath, temp2 |-> NoPath,
             res |-> "none", url |-> NoPath, replaced |-> FALSE, notice |-> "none",
             vaultCopyDeleted |-> FALSE]

\* ---------------------------------------------------------------- document
\* a reference ![alt](path) (form "md") or an embed ![[path]] (form "embed")
MdRef(alt, path) == [form |-> "md", alt |-> alt, path |-> path]

RECURSIVE Dedup(_, _)
Dedup(seq, seen) ==
    IF seq = <<>> THEN <<>>
    ELSE IF Head(seq) \in seen THEN Dedup(Tail(seq), seen)
         ELSE <<Head(seq)>> \o Dedup(Tail(seq), seen \cup {Head(seq)})

RECURSIVE PartialPaths(_, _)
PartialPaths(filePath, i) ==
    IF i > Len(filePath) THEN <<>>
    ELSE IF filePath[i] = "/"
         THEN <<SubSeq(filePath, i + 1, Len(filePath)),
                <<".", "/">> \o SubSeq(filePath, i + 1, Len(filePath))>>
              \o PartialPaths(filePath, i + 1)
         ELSE PartialPaths(filePath, i + 1)

generatePathVariants(fileName, filePath) ==
    Dedup(<<fileName, filePath,
            <<".", "/">> \o fileName, <<".", "/">> \o filePath,
            <<"attachments", "/">> \o fileName, <<".", "/", "attachments", "/">> \o fileName,
            <<"assets", "/">> \o fileName, <<".", "/", "assets", "/">> \o fileName,
            <<"images", "/">> \o fileName, <<".", "/", "images", "/">> \o fileName,
            <<"files", "/">> \o fileName, <<".", "/", "files", "/">> \o fileName>>
          \o (IF Includes(filePath, <<"/">>) THEN PartialPaths(filePath, 1) ELSE <<>>),
          {})

IsBracketVariant(pathVariant) ==
    /\ Len(pathVariant) >= 2
    /\ pathVariant[1] = "![["
    /\ pathVariant[Len(pathVariant)] = "]]"

\* the patterns tried for one path variant, most specific first
generateReplacementPatterns(pathVariant, fileName, newUrl) ==
    IF IsBracketVariant(pathVariant)
    THEN LET bracketContent == SubSeq(pathVariant, 2, Len(pathVariant) - 1)
             fileNameWithoutExt ==
                 LET dot == LastIndexOf(fileName, ".", Len(fileName))
                 IN IF dot = 0 THEN fileName ELSE SubSeq(fileName, 1, dot - 1)
         IN << [kind |-> "embed", isRegex |-> FALSE, alt |-> <<>>, path |-> bracketContent,
                replacement |-> MdRef(fileNameWithoutExt, newUrl)],
               [kind |-> "embed", isRegex |-> TRUE, alt |-> <<>>, path |-> bracketContent,
                replacement |-> MdRef(fileNameWithoutExt, newUrl)] >>
    ELSE << [kind |-> "exact", isRegex |-> FALSE, alt |-> fileName, path |-> pathVariant,
             replacement |-> MdRef(fileName, newUrl)],
            [kind |-> "anyAlt", isRegex |-> TRUE, alt |-> <<>>, path |-> pathVariant,
             replacement |-> MdRef(fileName, newUrl)] >>
         \o (IF pathVariant # fileName
             THEN << [kind |-> "contains", isRegex |-> TRUE, alt |-> <<>>, path |-> fileName,
                      replacement |-> MdRef(fileName, newUrl)] >>
             ELSE <<>>)

\* does the reference match the pattern
Matches(ref, p) ==
    CASE p.kind = "exact"    -> ref.form = "md" /\ ref.alt = p.alt /\ ref.path = p.path
      [] p.kind = "anyAlt"   -> ref.form = "md" /\ ref.path = p.path
      [] p.kind = "contains" -> ref.form = "md" /\ Includes(ref.path, p.path)
      [] p.kind = "embed"    -> ref.form = "embed" /\ ref.path = p.path

\* the text of a reference
RefText(ref) ==
    IF ref.form = "md" THEN <<"![">> \o ref.alt \o <<"](">> \o ref.path \o <<")">>
    ELSE <<"![[">> \o ref.path \o <<"]]">>

\* the first capture group of the pattern's regular expression, if it has one:
\* ([^\]]*) captures the alt text
HasGroup(p) == p.kind \in {"anyAlt", "contains"}

\* String.prototype.replace reads $$, $& and $1 in the replacement string as
\* "$", the matched text and the first capture group
RECURSIVE ExpandDollar(_, _, _)
ExpandDollar(str, p, ref) ==
    IF str = <<>> THEN <<>>
    ELSE (CASE Head(str) = "$$" -> <<"$">>
            [] Head(str) = "$&" -> RefText(ref)
            [] Head(str) = "$1" -> IF HasGroup(p) THEN ref.alt ELSE <<"$1">>
            [] OTHER -> <<Head(str)>>)
         \o ExpandDollar(Tail(str), p, ref)

\* what the match ref is replaced with
Replacement(p, ref) ==
    [form |-> "md", alt |-> ExpandDollar(p.replacement.alt, p, ref),
     path |-> ExpandDollar(p.replacement.path, p, ref)]

\* a "contains" pattern whose text compiles: !\[([^\]]*)\]\([^\)]*name[^\)]*\)
IsValidRegExpCompiles(p) == TRUE

\* new RegExp(pattern): the text of the "contains" pattern,
\* !\[([^\]]*)\]\([^\)]*name[^\)]*), closes a group it never opened, and the
\* constructor throws a SyntaxError
IsValidRegExp(p) == p.kind # "contains"

\* content.replace(new RegExp(pattern, 'g'), replacement)
ReplaceAll(content, p) ==
    [i \in DOMAIN content |->
        IF Matches(content[i], p) THEN Replacement(p, content[i]) ELSE content[i]]

\* String.prototype.replace with a string pattern: the first occurrence only
ReplaceFirst(content, p) ==
    LET hits == {i \in DOMAIN content : Matches(content[i], p)}
    IN IF hits = {} THEN content
       ELSE LET first == CHOOSE i \in hits : \A j \in hits : i <= j
            IN [content EXCEPT ![first] = Replacement(p, content[first])]

\* a regex pattern counts when the text changed, a string pattern when it occurs
PatternHits(content, p) ==
    IF p.isRegex THEN ReplaceAll(content, p) # content
    ELSE \E i \in DOMAIN content : Matches(content[i], p)

RECURSIVE AllPatterns(_, _, _)
AllPatterns(variants, fileName, newUrl) ==
    IF variants = <<>> THEN <<>>
    ELSE generateReplacementPatterns(Head(variants), fileName, newUrl)
         \o AllPatterns(Tail(variants), fileName, newUrl)

RECURSIVE FirstHit(_, _)
\* a loop without its break: the patterns that follow a hit are applied as well
FirstHitGoesOn(content, patterns) ==
    IF patterns = <<>> THEN [replaced |-> FALSE, content |-> content]
    ELSE IF Head(patterns).isRegex /\ ~IsValidRegExp(Head(patterns))
    THEN [replaced |-> FALSE, content |-> content]
    ELSE IF PatternHits(content, Head(patterns))
         THEN [replaced |-> TRUE,
               content |-> FirstHit(ReplaceAll(content, Head(patterns)), Tail(patterns)).content]
         ELSE FirstHit(content, Tail(patterns))

\* the loop over the patterns: the first one that replaces ends it, setValue; an
\* invalid regular expression throws, and the catch returns false
FirstHit(content, patterns) ==
    IF patterns = <<>> THEN [replaced |-> FALSE, content |-> content]
    ELSE IF Head(patterns).isRegex /\ ~IsValidRegExp(Head(patterns))
    THEN [replaced |-> FALSE, content |-> content]
    ELSE IF PatternHits(content, Head(patterns))
         THEN [replaced |-> TRUE, content |-> ReplaceAll(content, Head(patterns))]
         ELSE FirstHit(content, Tail(patterns))

\* returns what it returns and the text the editor holds afterwards
replaceImageLinkInDocument(content, oldPath, newUrl, fileName) ==
    FirstHit(content, AllPatterns(generatePathVariants(fileName, oldPath), fileName, newUrl))

\* processImageFile, strategies 2 to 4 after replaceImageLinkInDocument failed;
\* threw: the loose regular expression of strategy 4 was constructed
ManualReplacement(content, fileName, url) ==
    LET exact == [kind |-> "exact", isRegex |-> FALSE, alt |-> fileName, path |-> fileName,
                  replacement |-> MdRef(fileName, url)]
        loose == [kind |-> "contains", isRegex |-> TRUE, alt |-> <<>>, path |-> fileName,
                  replacement |-> MdRef(fileName, url)]
    IN IF PatternHits(content, exact)
       THEN [replaced |-> TRUE, content |-> ReplaceFirst(content, exact), threw |-> FALSE]
       ELSE IF ReplaceAll(content, exact) # content
       THEN [replaced |-> TRUE, content |-> ReplaceAll(content, exact), threw |-> FALSE]
       ELSE IF ~IsValidRegExp(loose)
       THEN [replaced |-> FALSE, content |-> content, threw |-> TRUE]
       ELSE IF ReplaceAll(content, loose) # content
       THEN [replaced |-> TRUE, content |-> ReplaceAll(content, loose), threw |-> FALSE]
       ELSE [replaced |-> FALSE, content |-> content, threw |-> FALSE]

\* fileName.replace(/\.[^/.]+$/, '')
WithoutExt(fileName) ==
    LET dot == LastIndexOf(fileName, ".", Len(fileName))
    IN IF dot = 0 \/ dot = Len(fileName) THEN fileName ELSE SubSeq(fileName, 1, dot - 1)

\* encodeURIComponent: a space becomes %20, a slash %2F
encodeURIComponent(str) ==
    [i \in DOMAIN str |-> CASE str[i] = " " -> "%20" [] str[i] = "/" -> "%2F" [] OTHER -> str[i]]

\* fileName.replace(/\s+/g, '%20')
SpacesEncoded(str) == [i \in DOMAIN str |-> IF str[i] = " " THEN "%20" ELSE str[i]]

\* pathParts.slice(i).join('/') for i < pathParts.length - 1, plain and with ./
RECURSIVE PartialRefs(_, _)
PartialRefs(filePath, i) ==
    IF i >= Len(filePath) THEN <<>>
    ELSE LET rest == SubSeq(filePath, i + 1, Len(filePath))
         IN IF (i = 0 \/ filePath[i] = "/") /\ Includes(rest, <<"/">>)
            THEN <<rest, <<".", "/">> \o rest>> \o PartialRefs(filePath, i + 1)
            ELSE PartialRefs(filePath, i + 1)

RECURSIVE PartialEmbeds(_, _)
PartialEmbeds(filePath, i) ==
    IF i >= Len(filePath) THEN <<>>
    ELSE LET rest == SubSeq(filePath, i + 1, Len(filePath))
         IN IF (i = 0 \/ filePath[i] = "/") /\ Includes(rest, <<"/">>)
            THEN <<(<<"![[">> \o rest \o <<"]]">>)>> \o PartialEmbeds(filePath, i + 1)
            ELSE PartialEmbeds(filePath, i + 1)

commonFolders == <<"attachments", "assets", "images", "files", "media">>

RECURSIVE FolderRefs(_, _)
FolderRefs(fileName, i) ==
    IF i > Len(commonFolders) THEN <<>>
    ELSE <<(<<commonFolders[i], "/">> \o fileName),
           (<<".", "/", commonFolders[i], "/">> \o fileName)>> \o FolderRefs(fileName, i + 1)

RECURSIVE FolderEmbeds(_, _)
FolderEmbeds(fileName, i) ==
    IF i > Len(commonFolders) THEN <<>>
    ELSE <<(<<"![[", commonFolders[i], "/">> \o fileName \o <<"]]">>)>>
         \o FolderEmbeds(fileName, i + 1)

\* the references, in the order the Set holds them
generateAllPossibleImageReferences(fileName, filePath) ==
    Dedup(<<fileName, filePath, <<".", "/">> \o fileName, <<".", "/">> \o filePath,
            encodeURIComponent(fileName), SpacesEncoded(fileName)>>
          \o (IF Includes(filePath, <<"/">>) THEN PartialRefs(filePath, 0) ELSE <<>>)
          \o FolderRefs(fileName, 1)
          \o <<(<<"![[">> \o fileName \o <<"]]">>), (<<"![[">> \o filePath \o <<"]]">>),
               (<<"![[">> \o WithoutExt(fileName) \o <<"]]">>)>>
          \o (IF Includes(filePath, <<"/">>) THEN PartialEmbeds(filePath, 0) ELSE <<>>)
          \o FolderEmbeds(fileName, 1),
          {})

\* replaceAllImageLinksInDocument, the patterns built for one reference: two exact
\* strings, any alt text, and the loose one on the file name
matchPatterns(reference, fileName, newUrl) ==
    << [kind |-> "exact", isRegex |-> FALSE, alt |-> fileName, path |-> reference,
        replacement |-> MdRef(fileName, newUrl)],
       [kind |-> "exact", isRegex |-> FALSE, alt |-> <<>>, path |-> reference,
        replacement |-> MdRef(fileName, newUrl)],
       [kind |-> "anyAlt", isRegex |-> TRUE, alt |-> <<>>, path |-> reference,
        replacement |-> MdRef(fileName, newUrl)],
       [kind |-> "contains", isRegex |-> TRUE, alt |-> <<>>, path |-> SpacesEncoded(fileName),
        replacement |-> MdRef(fileName, newUrl)] >>

\* every pattern that occurs is replaced throughout, one after the other
RECURSIVE ApplyEach(_, _)
ApplyEach(content, patterns) ==
    IF patterns = <<>> THEN content
    ELSE IF PatternHits(content, Head(patterns))
         THEN ApplyEach(ReplaceAll(content, Head(patterns)), Tail(patterns))
         ELSE ApplyEach(content, Tail(patterns))

\* the loop over the references other than embeds.  The array of patterns is built
\* first: a regular expression that does not compile throws there, and the catch
\* of replaceAllImageLinksInDocument returns false without a setValue
RECURSIVE OtherFormats(_, _, _, _)
OtherFormats(content, references, fileName, newUrl) ==
    IF references = <<>> THEN [threw |-> FALSE, content |-> content]
    ELSE LET patterns == matchPatterns(Head(references), fileName, newUrl)
         IN IF \E i \in DOMAIN patterns : patterns[i].isRegex /\ ~IsValidRegExp(patterns[i])
            THEN [threw |-> TRUE, content |-> content]
            ELSE OtherFormats(ApplyEach(content, patterns), Tail(references), fileName, newUrl)

\* the embeds ![[name]], ![[path]], ![[name without extension]] that occur in the
\* text are replaced first, and that ends it; otherwise the other formats
replaceAllImageLinksInDocument(content, fileName, filePath, newUrl) ==
    LET doubleBracketPatterns ==
            [i \in 1..3 |->
                [kind |-> "embed", isRegex |-> FALSE, alt |-> <<>>,
                 path |-> <<fileName, filePath, WithoutExt(fileName)>>[i],
                 replacement |-> MdRef(WithoutExt(fileName), newUrl)]]
        found == SelectSeq(doubleBracketPatterns, LAMBDA p : PatternHits(content, p))
        others == OtherFormats(content,
                               SelectSeq(generateAllPossibleImageReferences(fileName, filePath),
                                         LAMBDA ref : ~IsBracketVariant(ref)),
                               fileName, newUrl)
    IN IF found # <<>>
       THEN [replaced |-> TRUE, content |-> ApplyEach(content, found)]
       ELSE IF others.threw THEN [replaced |-> FALSE, content |-> content]
       ELSE [replaced |-> others.content # content, content |-> others.content]

\* ---------------------------------------------------------------- settings and discovery: definitions
AppPath == <<"/Applications/uPic.app/Contents/MacOS/uPic">>
BrewPath == <<"/usr/local/bin/upic">>
CustomPath == <<"~/", "tools/upic">>
HomeDir == "/Users/me/"
PathDir == "/opt/bin/"

DEFAULT_SETTINGS == [upicPath |-> AppPath, autoUpload |-> TRUE]

\* the partial settings the settings tab passes to plugin.updateSettings
Partials ==
    {[upicPath |-> p] : p \in {NoPath, CustomPath}} \cup {[autoUpload |-> FALSE]}

\* the settings objects the user imports
Imports == {[upicPath |-> CustomPath, autoUpload |-> FALSE],
            [upicPath |-> NoPath, autoUpload |-> TRUE]}

\* { ...settings, ...newSettings }
Merge(settings, newSettings) ==
    [k \in DOMAIN settings |->
        IF k \in DOMAIN newSettings THEN newSettings[k] ELSE settings[k]]

\* SettingsManager.validateSettings: an empty upicPath becomes the default path
validateSettings(settings) ==
    [settings EXCEPT !.upicPath = IF settings.upicPath = NoPath
                                  THEN DEFAULT_SETTINGS.upicPath
                                  ELSE settings.upicPath]

expandPath(path) ==
    IF Len(path) >= 1 /\ path[1] = "~/" THEN <<HomeDir>> \o Tail(path) ELSE path

\* two of the well-known installation paths of detectUPicPath
commonPaths == <<AppPath, BrewPath>>

\* path.join(dir, 'upic') for the one directory of PATH; `which upic` finds the same file
PathDirPath == <<PathDir, "upic">>

\* the candidates of detectUPicPath in the order it tries them: the configured path,
\* the well-known paths, the path a lookup command prints, the PATH directories
detectCandidates(settings) ==
    (IF settings.upicPath # NoPath
     THEN <<[kind |-> "path", path |-> expandPath(settings.upicPath)]>>
     ELSE <<>>)
    \o [i \in 1..Len(commonPaths) |-> [kind |-> "path", path |-> expandPath(commonPaths[i])]]
    \o <<[kind |-> "lookup", path |-> NoPath]>>
    \o <<[kind |-> "path", path |-> PathDirPath]>>

CachePaths == {CustomPath, expandPath(CustomPath), AppPath, BrewPath, PathDirPath}

NoEntry == [available |-> FALSE, timestamp |-> -1, epoch |-> -1]

cacheTimeout == 1

\* settings.uploadTimeout, in seconds
uploadTimeout == 2

\* getCachedAvailability: the cached answer ("null" when absent or expired) and the
\* cache it leaves; an available entry lives twice as long
getCachedAvailability(cache, path, t) ==
    LET cached == cache[path]
        effectiveTimeout == IF cached.available THEN cacheTimeout * 2 ELSE cacheTimeout
    IN IF cached = NoEntry THEN [value |-> "null", cache |-> cache]
       ELSE IF t - cached.timestamp > effectiveTimeout
       THEN [value |-> "null", cache |-> [cache EXCEPT ![path] = NoEntry]]
       ELSE [value |-> IF cached.available THEN "true" ELSE "false", cache |-> cache]

\* setCachedAvailability; epoch records which settings the discovery started under
setCachedAvailability(cache, path, available, t, epoch) ==
    [cache EXCEPT ![path] = [available |-> available, timestamp |-> t, epoch |-> epoch]]

\* detectUPicPath from candidate idx on, up to its next await: a candidate whose
\* answer is cached costs no await; "pgrep" waits for isUPicProcessRunning,
\* "lookup" for the lookup command, "found" and "none" end the call.  The loop of
\* getDiagnosticInfo (mode "diag") tests every candidate and does not stop at a
\* positive one
RECURSIVE Scan(_, _, _, _, _)
RECURSIVE TestStart(_, _, _, _, _, _)
Scan(cache, cands, idx, t, mode) ==
    IF idx > Len(cands)
    THEN [kind |-> "none", idx |-> idx, path |-> NoPath, cache |-> cache, tested |-> <<>>]
    ELSE IF cands[idx].kind = "lookup"
    THEN [kind |-> "lookup", idx |-> idx, path |-> NoPath, cache |-> cache, tested |-> <<>>]
    ELSE TestStart(cache, cands, idx, cands[idx].path, t, mode)

\* testUPicPath up to its first await: the empty path, the cache.  tested lists
\* the candidates (by their place in cands) that testUPicPath was called for
TestStart(cache, cands, idx, path, t, mode) ==
    LET c == getCachedAvailability(cache, path, t)
        out == IF path = NoPath THEN Scan(cache, cands, idx + 1, t, mode)
               ELSE IF c.value = "true" /\ mode # "diag"
               THEN [kind |-> "found", idx |-> idx, path |-> path, cache |-> c.cache,
                     tested |-> <<>>]
               ELSE IF c.value # "null" THEN Scan(c.cache, cands, idx + 1, t, mode)
               ELSE [kind |-> "pgrep", idx |-> idx, path |-> path, cache |-> c.cache,
                     tested |-> <<>>]
    IN [out EXCEPT !.tested = <<idx>> \o @]

\* cleanExpiredCache: every entry older than cacheTimeout goes, available or not
cleanExpiredCache(cache, t) ==
    [p \in DOMAIN cache |->
        IF cache[p] # NoEntry /\ t - cache[p].timestamp > cacheTimeout THEN NoEntry
        ELSE cache[p]]

\* mode: "resolve" (getAvailableUPicPath for an upload), "periodic"
\* (performPeriodicCheck), "diag" (getDiagnosticInfo); t0: the Date.now() that
\* performPeriodicCheck read when it began
IdleCall == [pc |-> "idle", mode |-> "resolve", idx |-> 0, path |-> NoPath, cands |-> <<>>,
             epoch |-> 0, t0 |-> 0, result |-> NoPath, tested |-> <<>>]

IdleOp == [kind |-> "none", pc |-> "idle"]

IdleBatch == [pc |-> "idle", content |-> <<>>, newContent |-> <<>>, localImages |-> <<>>,
              uploadedCount |-> 0]

NoUrl == <<>>

NoResult == [success |-> FALSE, url |-> NoUrl, error |-> <<>>, threw |-> FALSE,
             originalPath |-> ""]

IdleUpload == [pc |-> "idle", file |-> "", command |-> <<>>, child |-> "", procs |-> {},
               elapsed |-> 0, code |-> -1, stdout |-> <<>>, result |-> NoResult]

\* no UPicUploader constructed: globalCheckInterval = null (0),
\* isPeriodicCheckRunning = false, instanceCount = 0
NoTimer == [globalCheckInterval |-> 0, isPeriodicCheckRunning |-> FALSE, instanceCount |-> 0,
            live |-> {}, loaded |-> {}, loads |-> 0, listeners |-> {}]

Callers == 1..MaxCallers

Envs == [installed : {{}, {expandPath(CustomPath)}, {PathDirPath}},
         broken : {{BrewPath}}, running : {FALSE}]
        \cup [installed : {{expandPath(CustomPath)}}, broken : {{BrewPath}}, running : {TRUE}]

\* ---------------------------------------------------------------- relay tasks
Init ==
    /\ isDesktop \in BOOLEAN
    /\ processingFiles = {}
    /\ doc = <<>>
    /\ tmp = [p \in TempPaths |-> NoFile]
    /\ vault \in [VaultNames -> {0, UserBytes}]
    /\ showNotifications \in BOOLEAN
    /\ toolKeepsName \in BOOLEAN
    /\ edits = 0
    /\ task = [t \in Tasks |-> IdleTask]
    /\ pluginSettings = DEFAULT_SETTINGS
    /\ managerSettings = DEFAULT_SETTINGS
    /\ uploaderSettings = DEFAULT_SETTINGS
    /\ detectedUpicPath = NoPath
    /\ availabilityCache = [p \in CachePaths |-> NoEntry]
    /\ lastCheckTime = 0
    /\ now = 0
    /\ env = [installed |-> {AppPath}, broken |-> {}, running |-> FALSE]
    /\ disc = [c \in Callers |-> IdleCall]
    /\ op = IdleOp
    /\ batch = IdleBatch
    /\ upload = IdleUpload
    /\ timer = NoTimer
    /\ hist = [epoch |-> 0, detectedEpoch |-> 0, opsDone |-> 0, lastKind |-> "none",
               lastOk |-> FALSE, unfound |-> -1]

InFlight(t) == task[t].pc \notin {"idle", "done"}

\* task slots are taken in order, and the files are numbered in the order they arrive
NextSlot(t, f) ==
    /\ task[t].pc = "idle"
    /\ \A u \in Tasks : u < t => task[u].pc # "idle"
    /\ f.size = 1 \/ \E u \in Tasks : task[u].pc # "idle" /\ task[u].file.size = f.size - 1

\* a processImageFile without the finally block
ReleasedNever(t) == processingFiles

\* the finally block of processImageFile; processDroppedImageFileFixed has none
Released(t) ==
    IF task[t].kind = "paste" THEN processingFiles \ {FileId(task[t].file)}
    ELSE processingFiles

\* processImageFile on a platform that is not desktop: notice, return, finally
PasteNotDesktop(t, f) ==
    /\ ~isDesktop
    /\ NextSlot(t, f)
    /\ task' = [task EXCEPT ![t] = [IdleTask EXCEPT !.pc = "done", !.kind = "paste",
                                                    !.file = f, !.notice = "desktopOnly"]]
    /\ processingFiles' = processingFiles \ {FileId(f)}
    /\ UNCHANGED <<cmdVars, locVars, isDesktop, showNotifications, toolKeepsName, doc, tmp, vault, edits>>

\* processImageFile finds the fileId in processingFiles: return, finally
RejectDuplicate(f) ==
    /\ isDesktop
    /\ FileId(f) \in processingFiles
    /\ processingFiles' = processingFiles \ {FileId(f)}
    /\ UNCHANGED <<cmdVars, locVars, isDesktop, showNotifications, toolKeepsName, doc, tmp, vault, edits, task>>

\* a processImageFile that stages the file without showing the placeholder first
BeginPasteNoPlaceholder(t, f) ==
    /\ isDesktop
    /\ NextSlot(t, f)
    /\ FileId(f) \notin processingFiles
    /\ processingFiles' = processingFiles \cup {FileId(f)}
    /\ doc' = doc
    /\ task' = [task EXCEPT ![t] = [IdleTask EXCEPT !.pc = "stage1", !.kind = "paste", !.file = f]]
    /\ UNCHANGED <<cmdVars, locVars, isDesktop, showNotifications, toolKeepsName, tmp, vault, edits>>

\* processImageFile up to its first await: guard, mark, insert the placeholder
BeginPaste(t, f) ==
    /\ isDesktop
    /\ NextSlot(t, f)
    /\ FileId(f) \notin processingFiles
    /\ processingFiles' = processingFiles \cup {FileId(f)}
    /\ doc' = Append(doc, MdRef(f.name, f.name))
    /\ task' = [task EXCEPT ![t] = [IdleTask EXCEPT !.pc = "stage1", !.kind = "paste", !.file = f]]
    /\ UNCHANGED <<cmdVars, locVars, isDesktop, showNotifications, toolKeepsName, tmp, vault, edits>>

\* isExternalFile: getRealFilePath found a path outside the vault ("external"), or
\* it found none or a path inside the vault, such as the vault root ("internal")
DropSources == {"internal", "external"}

\* processDroppedImageFileFixed up to its first await
BeginDrop(t, f, src) ==
    /\ NextSlot(t, f)
    /\ doc' = Append(doc, MdRef(f.name, f.name))
    /\ task' = [task EXCEPT ![t] = [IdleTask EXCEPT
                    !.pc = IF src = "external" THEN "copy" ELSE "stage2",
                    !.kind = "drop", !.file = f]]
    /\ UNCHANGED <<cmdVars, locVars, isDesktop, showNotifications, toolKeepsName, processingFiles, tmp, vault, edits>>

\* an outer catch without the finally block that releases the fingerprint
ThrownKeepsFingerprint(t) ==
    /\ task' = [task EXCEPT ![t].pc = "done", ![t].notice = "error", ![t].staging = NoPath]
    /\ processingFiles' = processingFiles

\* what a task does when it leaves through the outer catch
Thrown(t) ==
    /\ task' = [task EXCEPT ![t].pc = "done", ![t].notice = "error", ![t].staging = NoPath]
    /\ processingFiles' = Released(t)

\* the Date.now() values of the stamped names that are in use
StampsInUse(fileName) ==
    {ts \in 0..MaxClock :
        \/ tmp[StampedName(fileName, ts)] # NoFile
        \/ \E u \in Tasks : StampedName(fileName, ts) \in
                                {task[u].staging, task[u].temp1, task[u].temp2}}

\* createTempFile: the platform check, fs.access on the plain name, the choice of the
\* path; ts is what Date.now() reads: the millisecond of a stamp still in use, or
\* the next one
CreateTempAccess(t, ts) ==
    /\ task[t].pc \in {"stage1", "stage2"}
    /\ ts = 0 \/ (ts - 1) \in StampsInUse(task[t].file.name)
    /\ IF ~isDesktop
       THEN IF task[t].pc = "stage1"
            THEN /\ task' = [task EXCEPT ![t].pc = "stage2"]
                 /\ UNCHANGED processingFiles
            ELSE Thrown(t)
       ELSE /\ task' = [task EXCEPT
                    ![t].staging = IF tmp[task[t].file.name] # NoFile
                                   THEN StampedName(task[t].file.name, ts)
                                   ELSE task[t].file.name,
                    ![t].pc = IF task[t].pc = "stage1" THEN "write1" ELSE "write2"]
            /\ UNCHANGED processingFiles
    /\ UNCHANGED <<cmdVars, locVars, isDesktop, showNotifications, toolKeepsName, doc, tmp, vault, edits>>

\* createTempFile: writeFile(tempFilePath, bytes), which may fail
CreateTempWrite(t, ok) ==
    /\ task[t].pc \in {"write1", "write2"}
    /\ IF ok
       THEN /\ tmp' = [tmp EXCEPT ![task[t].staging] = [bytes |-> task[t].file.size, owner |-> t]]
            /\ task' = IF task[t].pc = "write1"
                       THEN [task EXCEPT ![t].temp1 = task[t].staging, ![t].staging = NoPath,
                                         ![t].pc = "copy"]
                       ELSE [task EXCEPT ![t].temp2 = task[t].staging, ![t].staging = NoPath,
                                         ![t].pc = "upload"]
            /\ UNCHANGED processingFiles
       ELSE /\ UNCHANGED tmp
            /\ IF task[t].pc = "write1"
               THEN /\ task' = [task EXCEPT ![t].pc = "stage2", ![t].staging = NoPath]
                    /\ UNCHANGED processingFiles
               ELSE Thrown(t)
    /\ UNCHANGED <<cmdVars, locVars, isDesktop, showNotifications, toolKeepsName, doc, vault, edits>>

\* fs.copyFile(source, vaultCopyPath): overwrites the target; may fail.  The paste
\* task copies its temp file and goes on to delete it; when the copy throws, the
\* inner catch skips that delete.  The drop task copies the dragged original.
CopyToVault(t, ok) ==
    /\ task[t].pc = "copy"
    /\ IF task[t].kind = "paste"
       THEN IF ok /\ tmp[task[t].temp1] # NoFile
            THEN /\ vault' = [vault EXCEPT ![task[t].file.name] = tmp[task[t].temp1].bytes]
                 /\ task' = [task EXCEPT ![t].pc = "del1"]
            ELSE /\ UNCHANGED vault
                 /\ task' = [task EXCEPT ![t].pc = "stage2", ![t].temp1 = NoPath]
       ELSE /\ vault' = IF ok THEN [vault EXCEPT ![task[t].file.name] = task[t].file.size]
                        ELSE vault
            /\ task' = [task EXCEPT ![t].pc = "stage2"]
    /\ UNCHANGED <<cmdVars, locVars, isDesktop, showNotifications, toolKeepsName, processingFiles, doc, tmp, edits>>

\* a file the process may not delete: none that a task made
LockedFile == [bytes |-> UserBytes, owner |-> -1]

\* fs/promises unlink(filePath): the file is removed, or the promise rejects
\* because there is no such file or because the file may not be deleted
unlink(fs, filePath) ==
    IF filePath = NoPath \/ fs[filePath] = NoFile THEN [error |-> "ENOENT", fs |-> fs]
    ELSE IF fs[filePath] = LockedFile THEN [error |-> "EPERM", fs |-> fs]
    ELSE [error |-> "", fs |-> [fs EXCEPT ![filePath] = NoFile]]

\* a deleteTempFile without its try/catch: the rejection of unlink reaches the caller
DeleteTempFileReturnsUncaught(fs, filePath) ==
    IF ~isDesktop THEN [threw |-> FALSE, warned |-> TRUE, fs |-> fs]
    ELSE LET r == unlink(fs, filePath)
         IN [threw |-> r.error # "", warned |-> FALSE, fs |-> r.fs]

\* deleteTempFile(filePath): what it leaves of the file system, whether it
\* logged a warning, whether it threw
DeleteTempFileReturns(fs, filePath) ==
    IF ~isDesktop THEN [threw |-> FALSE, warned |-> TRUE, fs |-> fs]
    ELSE LET r == unlink(fs, filePath)
         IN [threw |-> FALSE, warned |-> r.error # "", fs |-> r.fs]

\* the file system after deleteTempFile(filePath)
deleteTempFile(fs, filePath) == DeleteTempFileReturns(fs, filePath).fs

\* processImageFile: the temp file made for the vault copy is deleted
DeleteCopyTemp(t) ==
    /\ task[t].pc = "del1"
    /\ tmp' = deleteTempFile(tmp, task[t].temp1)
    /\ task' = [task EXCEPT ![t].pc = "stage2", ![t].temp1 = NoPath]
    /\ UNCHANGED <<cmdVars, locVars, isDesktop, showNotifications, toolKeepsName, processingFiles, doc, vault, edits>>

\* result.success && result.url: replaceImageLinkInDocument, in processImageFile
\* followed by the manual strategies; then the success notice.  When strategy 4
\* throws, the outer catch shows the error notice and the finally block runs
SuccessBranch(t, url) ==
    LET r1 == replaceImageLinkInDocument(doc, task[t].file.name, url, task[t].file.name)
        r2 == IF task[t].kind = "paste" /\ ~r1.replaced
              THEN ManualReplacement(r1.content, task[t].file.name, url)
              ELSE [replaced |-> r1.replaced, content |-> r1.content, threw |-> FALSE]
    IN IF r2.threw
       THEN /\ doc' = doc
            /\ task' = [task EXCEPT ![t].pc = "done", ![t].res = "ok", ![t].url = url,
                                    ![t].notice = "error", ![t].temp2 = NoPath]
            /\ processingFiles' = Released(t)
       ELSE /\ doc' = r2.content
            /\ task' = [task EXCEPT ![t].pc = "delTemp", ![t].res = "ok", ![t].url = url,
                                    ![t].replaced = r2.replaced,
                                    ![t].notice = IF showNotifications THEN "success"
                                                  ELSE "none"]
            /\ UNCHANGED processingFiles

\* a failure branch that inserts a link to the temp file as a fallback
FailureBranchInsertsLink(t) ==
    /\ doc' = Append(doc, MdRef(task[t].file.name, task[t].temp2))
    /\ task' = [task EXCEPT ![t].pc = "delTemp", ![t].res = "fail", ![t].notice = "failed"]

\* the else branch: the failure notice; the document is left alone
FailureBranch(t) ==
    /\ doc' = doc
    /\ task' = [task EXCEPT ![t].pc = "delTemp", ![t].res = "fail", ![t].notice = "failed"]

\* uploader.uploadFile(tempFilePath) resolves with a URL
UploadSucceeds(t) ==
    /\ task[t].pc = "upload"
    /\ SuccessBranch(t, UrlOf(t, toolKeepsName))
    /\ UNCHANGED <<cmdVars, locVars, isDesktop, showNotifications, toolKeepsName, tmp, vault, edits>>

\* uploader.uploadFile(tempFilePath) resolves with success = false (no tool found,
\* timeout, non-zero exit, no URL in the output)
UploadFails(t) ==
    /\ task[t].pc = "upload"
    /\ FailureBranch(t)
    /\ UNCHANGED <<cmdVars, locVars, isDesktop, showNotifications, toolKeepsName, processingFiles, tmp, vault, edits>>

\* deleteTempFile(tempFilePath) of either branch, then existsSync(vaultCopyPath)
DeleteUploadTemp(t) ==
    /\ task[t].pc = "delTemp"
    /\ tmp' = deleteTempFile(tmp, task[t].temp2)
    /\ IF task[t].res = "ok" /\ vault[task[t].file.name] # 0
       THEN /\ task' = [task EXCEPT ![t].pc = "delVault", ![t].temp2 = NoPath]
            /\ UNCHANGED processingFiles
       ELSE /\ task' = [task EXCEPT ![t].pc = "done", ![t].temp2 = NoPath]
            /\ processingFiles' = Released(t)
    /\ UNCHANGED <<cmdVars, locVars, isDesktop, showNotifications, toolKeepsName, doc, vault, edits>>

\* deleteVaultCopyFile(vaultCopyPath, file.name): fs.access, fs.unlink
deleteVaultCopyFile(t) ==
    /\ task[t].pc = "delVault"
    /\ vault' = [vault EXCEPT ![task[t].file.name] = 0]
    /\ task' = [task EXCEPT ![t].pc = "done",
                            ![t].vaultCopyDeleted = (vault[task[t].file.name] # 0)]
    /\ processingFiles' = Released(t)
    /\ UNCHANGED <<cmdVars, locVars, isDesktop, showNotifications, toolKeepsName, doc, tmp, edits>>

\* the user deletes one reference from the text while an upload is running
UserDeletesRef(i) ==
    /\ edits < MaxEdits
    /\ \E t \in Tasks : task[t].pc = "upload"
    /\ i \in DOMAIN doc
    /\ doc' = SubSeq(doc, 1, i - 1) \o SubSeq(doc, i + 1, Len(doc))
    /\ edits' = edits + 1
    /\ UNCHANGED <<cmdVars, locVars, isDesktop, showNotifications, toolKeepsName, processingFiles, tmp, vault, task>>

Next ==
    \/ \E t \in Tasks, f \in Files : PasteNotDesktop(t, f)
    \/ \E f \in Files : RejectDuplicate(f)
    \/ \E t \in Tasks, f \in Files : BeginPaste(t, f)
    \/ \E t \in Tasks, f \in Files, src \in DropSources : BeginDrop(t, f, src)
    \/ \E t \in Tasks, ts \in 0..MaxClock : CreateTempAccess(t, ts)
    \/ \E t \in Tasks, ok \in BOOLEAN : CreateTempWrite(t, ok)
    \/ \E t \in Tasks, ok \in BOOLEAN : CopyToVault(t, ok)
    \/ \E t \in Tasks : DeleteCopyTemp(t)
    \/ \E t \in Tasks : UploadSucceeds(t)
    \/ \E t \in Tasks : UploadFails(t)
    \/ \E t \in Tasks : DeleteUploadTemp(t)
    \/ \E t \in Tasks : deleteVaultCopyFile(t)
    \/ \E i \in 1..MaxTasks : UserDeletesRef(i)

Spec == Init /\ [][Next]_vars

\* what a task is bound to do: the file operations settle, and an upload command
\* that has not returned (UploadSucceeds) is cut off by the timeout (UploadFails)
TaskStep(t) ==
    \/ \E ts \in 0..MaxClock : CreateTempAccess(t, ts)
    \/ \E ok \in BOOLEAN : CreateTempWrite(t, ok)
    \/ \E ok \in BOOLEAN : CopyToVault(t, ok)
    \/ DeleteCopyTemp(t)
    \/ UploadFails(t)
    \/ DeleteUploadTemp(t)
    \/ deleteVaultCopyFile(t)

SpecLive == Spec /\ \A t \in Tasks : WF_vars(TaskStep(t))

\* ---------------------------------------------------------------- settings and discovery: actions
\* the state after onload: the three components share the loaded settings
LocInit ==
    /\ isDesktop = TRUE
    /\ showNotifications = TRUE
    /\ toolKeepsName = TRUE
    /\ processingFiles = {}
    /\ doc = <<>>
    /\ tmp = [p \in TempPaths |-> NoFile]
    /\ vault = [n \in VaultNames |-> 0]
    /\ edits = 0
    /\ task = [t \in Tasks |-> IdleTask]
    /\ pluginSettings = DEFAULT_SETTINGS
    /\ managerSettings = DEFAULT_SETTINGS
    /\ uploaderSettings = DEFAULT_SETTINGS
    /\ detectedUpicPath = NoPath
    /\ availabilityCache = [p \in CachePaths |-> NoEntry]
    /\ lastCheckTime = 0
    /\ now = 1
    /\ env \in Envs
    /\ disc = [c \in Callers |-> IdleCall]
    /\ op = IdleOp
    /\ batch = IdleBatch
    /\ upload = IdleUpload
    /\ timer = NoTimer
    /\ hist = [epoch |-> 0, detectedEpoch |-> 0, opsDone |-> 0, lastKind |-> "none",
               lastOk |-> FALSE, unfound |-> -1]

\* what a call does with the outcome of a scan: end (getAvailableUPicPath stores
\* the path it found in detectedUpicPath; performPeriodicCheck goes on to set
\* lastCheckTime and to clean the cache) or wait for the next answer
Settle(c, call, out) ==
    LET ended == out.kind \in {"found", "none"}
    IN /\ availabilityCache' = IF ended /\ call.mode = "periodic"
                               THEN cleanExpiredCache(out.cache, now)
                               ELSE out.cache
       /\ lastCheckTime' = IF ended /\ call.mode \in {"periodic", "check"} THEN call.t0
                           ELSE lastCheckTime
       /\ IF out.kind = "found"
          THEN /\ detectedUpicPath' = out.path
               /\ hist' = [hist EXCEPT !.detectedEpoch = call.epoch]
          ELSE /\ detectedUpicPath' = detectedUpicPath
               /\ hist' = IF out.kind = "none" /\ call.mode # "diag"
                          THEN [hist EXCEPT !.unfound = call.epoch]
                          ELSE hist
       /\ disc' = [disc EXCEPT ![c] =
                      IF ended
                      THEN [call EXCEPT !.pc = "done", !.result = out.path, !.idx = 0,
                                        !.path = NoPath, !.t0 = 0,
                                        !.tested = @ \o out.tested]
                      ELSE [call EXCEPT !.pc = out.kind, !.idx = out.idx, !.path = out.path,
                                        !.tested = @ \o out.tested]]

\* a discovery that went on to the next candidate after a positive test
AcceptedGoesOn(call, cache) ==
    Scan(cache, call.cands, call.idx + 1, now, call.mode)

\* the candidate the call was testing is accepted
Accepted(call, cache) ==
    IF call.mode = "diag" THEN Scan(cache, call.cands, call.idx + 1, now, call.mode)
    ELSE [kind |-> "found", idx |-> call.idx, path |-> call.path, cache |-> cache,
          tested |-> <<>>]

\* calls start in the order of their numbers
FreeCaller(c) ==
    /\ disc[c].pc = "idle"
    /\ \A d \in Callers : d < c => disc[d].pc # "idle"

\* getAvailableUPicPath is called (by uploadFile)
getAvailableUPicPath(c) ==
    /\ FreeCaller(c)
    /\ IF detectedUpicPath # NoPath
       THEN /\ disc' = [disc EXCEPT ![c] = [IdleCall EXCEPT !.pc = "done", !.epoch = hist.epoch,
                                                            !.result = detectedUpicPath]]
            /\ UNCHANGED <<detectedUpicPath, availabilityCache, lastCheckTime, hist>>
       ELSE LET cands == detectCandidates(uploaderSettings)
                call == [IdleCall EXCEPT !.cands = cands, !.epoch = hist.epoch]
            IN Settle(c, call, Scan(availabilityCache, cands, 1, now, call.mode))
    /\ UNCHANGED <<cmdVars, relayVars, pluginSettings, managerSettings, uploaderSettings,
                   now, env, op>>

\* isUPicProcessRunning: whether pgrep -f "uPic" counts a process; false when the
\* command fails, takes more than its three seconds, or the running process was
\* started under a name pgrep does not match, such as /usr/local/bin/upic (ok = FALSE)
isUPicProcessRunning(ok) == ok /\ env.running

\* isUPicProcessRunning answers: a running uPic vouches for the candidate; otherwise
\* the file checks, and the probe command is started
PgrepReturns(c, ok) ==
    /\ disc[c].pc = "pgrep"
    /\ ok \/ env.running
    /\ LET call == disc[c]
       IN IF isUPicProcessRunning(ok)
          THEN Settle(c, call,
                      Accepted(call, setCachedAvailability(availabilityCache, call.path, TRUE,
                                                           now, call.epoch)))
          ELSE IF expandPath(call.path) \notin (env.installed \cup env.broken)
          THEN Settle(c, call,
                      Scan(setCachedAvailability(availabilityCache, call.path, FALSE,
                                                 now, call.epoch),
                           call.cands, call.idx + 1, now, call.mode))
          ELSE /\ disc' = [disc EXCEPT ![c].pc = "probe"]
               /\ UNCHANGED <<detectedUpicPath, availabilityCache, lastCheckTime, hist>>
    /\ UNCHANGED <<cmdVars, relayVars, pluginSettings, managerSettings, uploaderSettings,
                   now, env, op>>

\* String.prototype.toLowerCase, the text cut into the words the checks look for
RECURSIVE toLowerCase(_)
toLowerCase(str) ==
    IF str = <<>> THEN <<>>
    ELSE (CASE Head(str) = "/Applications/uPic.app/Contents/MacOS/uPic"
                   -> <<"/applications/", "upic", ".app/contents/macos/", "upic">>
            [] Head(str) = "/usr/local/bin/upic" -> <<"/usr/local/bin/", "upic">>
            [] Head(str) = "tools/upic" -> <<"tools/", "upic">>
            [] Head(str) = "/Users/me/" -> <<"/users/me/">>
            [] Head(str) = "Command failed: " -> <<"command failed: ">>
            [] Head(str) = "Segmentation fault" -> <<"segmentation fault">>
            [] Head(str) = "--help" -> <<"--", "help">>
            [] OTHER -> <<Head(str)>>)
         \o toLowerCase(Tail(str))

testCommands == <<"--version", "--help">>

\* what the two probe commands do, one after the other.  uPic prints its version;
\* another executable at the candidate's path stays silent, fails or hangs (after
\* the first failure that is accepted the second command is not run)
ProbeRuns == {<<"prints", "prints">>, <<"silent", "silent">>, <<"fails", "silent">>,
              <<"timeout", "silent">>, <<"silent", "fails">>, <<"silent", "timeout">>}

\* cmdError.message of a probe command that failed: exec's "Command failed: ",
\* the command, and what the command wrote to stderr
ProbeErrorMessage(expandedPath, flag, outcome) ==
    <<"Command failed: ">> \o expandedPath \o <<" ", flag, "\n">>
        \o (IF outcome = "fails" THEN <<"Segmentation fault">> ELSE <<>>)

isValidUpicError(errorMsg) ==
    /\ Includes(errorMsg, <<"upic">>)
    /\ \/ Includes(errorMsg, <<"missing required options">>)
       \/ Includes(errorMsg, <<"usage">>)
       \/ Includes(errorMsg, <<"help">>)
       \/ Includes(errorMsg, <<"command not found">>) = FALSE

\* the loop over testCommands: true as soon as a command prints a keyword or
\* fails with an error that isValidUpicError accepts
RECURSIVE ProbeLoop(_, _, _)
ProbeLoop(expandedPath, outs, i) ==
    IF i > Len(testCommands) THEN FALSE
    ELSE IF outs[i] = "prints" THEN TRUE
    ELSE IF outs[i] \in {"fails", "timeout"}
            /\ isValidUpicError(toLowerCase(ProbeErrorMessage(expandedPath, testCommands[i],
                                                              outs[i])))
    THEN TRUE
    ELSE ProbeLoop(expandedPath, outs, i + 1)

\* the probe commands (--version, --help) have answered: uPic prints its version;
\* another executable at the candidate's path prints nothing of interest, fails,
\* or hangs
ProbeReturns(c, outs) ==
    /\ disc[c].pc = "probe"
    /\ IF expandPath(disc[c].path) \in env.installed THEN outs = <<"prints", "prints">>
       ELSE \A i \in 1..2 : outs[i] # "prints"
    /\ LET call == disc[c]
       IN IF ProbeLoop(expandPath(call.path), outs, 1)
          THEN Settle(c, call,
                      Accepted(call, setCachedAvailability(availabilityCache, call.path, TRUE,
                                                           now, call.epoch)))
          ELSE Settle(c, call,
                      Scan(setCachedAvailability(availabilityCache, call.path, FALSE,
                                                 now, call.epoch),
                           call.cands, call.idx + 1, now, call.mode))
    /\ UNCHANGED <<cmdVars, relayVars, pluginSettings, managerSettings, uploaderSettings,
                   now, env, op>>

\* the lookup command (which upic) has answered: the path it printed is tested
LookupReturns(c) ==
    /\ disc[c].pc = "lookup"
    /\ LET call == disc[c]
       IN IF PathDirPath \in (env.installed \cup env.broken)
          THEN Settle(c, call, TestStart(availabilityCache, call.cands, call.idx, PathDirPath,
                                         now, call.mode))
          ELSE Settle(c, call, Scan(availabilityCache, call.cands, call.idx + 1, now, call.mode))
    /\ UNCHANGED <<cmdVars, relayVars, pluginSettings, managerSettings, uploaderSettings,
                   now, env, op>>

\* SettingsManager.saveSettings(newSettings) up to its await of saveData
saveSettings(newSettings) == validateSettings(Merge(managerSettings, newSettings))

\* the settings tab calls plugin.updateSettings(partial)
UpdateSettingsBegins(partial) ==
    /\ op.pc = "idle"
    /\ hist.opsDone < MaxOps
    /\ managerSettings' = saveSettings(partial)
    /\ op' = [kind |-> "update", pc |-> "saving"]
    /\ UNCHANGED <<cmdVars, relayVars, pluginSettings, uploaderSettings, detectedUpicPath,
                   availabilityCache, lastCheckTime, now, env, disc, hist>>

\* the command 'Toggle auto upload'
ToggleAutoUploadBegins ==
    /\ op.pc = "idle"
    /\ hist.opsDone < MaxOps
    /\ managerSettings' = saveSettings([autoUpload |-> ~pluginSettings.autoUpload])
    /\ op' = [kind |-> "toggle", pc |-> "saving"]
    /\ UNCHANGED <<cmdVars, relayVars, pluginSettings, uploaderSettings, detectedUpicPath,
                   availabilityCache, lastCheckTime, now, env, disc, hist>>

\* the settings tab's Import: SettingsManager.importSettings(json)
ImportBegins(imported) ==
    /\ op.pc = "idle"
    /\ hist.opsDone < MaxOps
    /\ managerSettings' = saveSettings(Merge(DEFAULT_SETTINGS, imported))
    /\ op' = [kind |-> "import", pc |-> "saving"]
    /\ UNCHANGED <<cmdVars, relayVars, pluginSettings, uploaderSettings, detectedUpicPath,
                   availabilityCache, lastCheckTime, now, env, disc, hist>>

\* the settings tab's Reset: SettingsManager.resetSettings()
ResetBegins ==
    /\ op.pc = "idle"
    /\ hist.opsDone < MaxOps
    /\ managerSettings' = DEFAULT_SETTINGS
    /\ op' = [kind |-> "reset", pc |-> "saving"]
    /\ UNCHANGED <<cmdVars, relayVars, pluginSettings, uploaderSettings, detectedUpicPath,
                   availabilityCache, lastCheckTime, now, env, disc, hist>>

\* saveData has answered; ok = FALSE when it threw, and saveSettings rethrows.
\* plugin.updateSettings goes on to copy the settings and to call
\* uploader.updateSettings; toggleAutoUpload copies them to the plugin only;
\* Import and Reset refresh the settings tab
SaveReturns(ok) ==
    /\ op.pc = "saving"
    /\ op' = IdleOp
    /\ IF ok /\ op.kind = "update"
       THEN /\ pluginSettings' = managerSettings
            /\ uploaderSettings' = managerSettings
            /\ detectedUpicPath' = NoPath
            /\ availabilityCache' = [p \in CachePaths |-> NoEntry]
            /\ lastCheckTime' = 0
            /\ hist' = [hist EXCEPT !.epoch = @ + 1, !.opsDone = @ + 1,
                                    !.lastKind = op.kind, !.lastOk = ok]
       ELSE /\ pluginSettings' = IF ok /\ op.kind = "toggle" THEN managerSettings
                                 ELSE pluginSettings
            /\ hist' = [hist EXCEPT !.opsDone = @ + 1, !.lastKind = op.kind, !.lastOk = ok]
            /\ UNCHANGED <<uploaderSettings, detectedUpicPath, availabilityCache, lastCheckTime>>
    /\ UNCHANGED <<cmdVars, relayVars, managerSettings, now, env, disc>>

\* time passes
Tick ==
    /\ now < MaxNow
    /\ now' = now + 1
    /\ UNCHANGED <<cmdVars, relayVars, pluginSettings, managerSettings, uploaderSettings,
                   detectedUpicPath, availabilityCache, lastCheckTime, env, disc, op, hist>>

LocNext ==
    \/ \E c \in Callers : getAvailableUPicPath(c)
    \/ \E c \in Callers, ok \in BOOLEAN : PgrepReturns(c, ok)
    \/ \E c \in Callers, outs \in {<<"prints", "prints">>, <<"silent", "silent">>} :
           ProbeReturns(c, outs)
    \/ \E c \in Callers : LookupReturns(c)
    \/ \E partial \in Partials : UpdateSettingsBegins(partial)
    \/ ToggleAutoUploadBegins
    \/ \E imported \in Imports : ImportBegins(imported)
    \/ ResetBegins
    \/ \E ok \in BOOLEAN : SaveReturns(ok)
    \/ Tick

SpecLocator == LocInit /\ [][LocNext]_vars

\* everything but the editor's text at rest
RelayAtRest ==
    /\ isDesktop = TRUE
    /\ showNotifications = TRUE
    /\ toolKeepsName = TRUE
    /\ processingFiles = {}
    /\ tmp = [p \in TempPaths |-> NoFile]
    /\ vault = [n \in VaultNames |-> 0]
    /\ edits = 0

LocatorAtRest ==
    /\ pluginSettings = DEFAULT_SETTINGS
    /\ managerSettings = DEFAULT_SETTINGS
    /\ uploaderSettings = DEFAULT_SETTINGS
    /\ detectedUpicPath = NoPath
    /\ availabilityCache = [p \in CachePaths |-> NoEntry]
    /\ lastCheckTime = 0
    /\ now = 0
    /\ env = [installed |-> {AppPath}, broken |-> {}, running |-> FALSE]
    /\ disc = [c \in Callers |-> IdleCall]
    /\ op = IdleOp
    /\ batch = IdleBatch
    /\ upload = IdleUpload
    /\ timer = NoTimer
    /\ hist = [epoch |-> 0, detectedEpoch |-> 0, opsDone |-> 0, lastKind |-> "none",
               lastOk |-> FALSE, unfound |-> -1]

\* ---------------------------------------------------------------- periodic check, diagnostics
\* the paths getDiagnosticInfo tests: the configured path and its well-known
\* paths, those that exist and are executable; it passes them on unexpanded
diagnosticCandidates(settings) ==
    SelectSeq((IF settings.upicPath # NoPath
               THEN <<[kind |-> "path", path |-> settings.upicPath]>> ELSE <<>>)
              \o [i \in 1..Len(commonPaths) |-> [kind |-> "path", path |-> commonPaths[i]]],
              LAMBDA cand : expandPath(cand.path) \in (env.installed \cup env.broken))

\* getDiagnosticInfo, from the point its `which upic` has answered: the loop of
\* testUPicPath calls begins
getDiagnosticInfo(c) ==
    /\ FreeCaller(c)
    /\ LET cands == diagnosticCandidates(uploaderSettings)
           call == [IdleCall EXCEPT !.mode = "diag", !.cands = cands, !.epoch = hist.epoch]
       IN Settle(c, call, Scan(availabilityCache, cands, 1, now, call.mode))
    /\ UNCHANGED <<cmdVars, relayVars, pluginSettings, managerSettings, uploaderSettings,
                   now, env, op>>

\* the interval timer calls performPeriodicCheck.  A check less than
\* 0.8 * checkInterval ago makes it return at once; that window, like the five
\* seconds of checkUPicAvailability, is shorter than one unit of time.  Otherwise
\* it awaits isUPicProcessRunning
performPeriodicCheck(c) ==
    /\ FreeCaller(c)
    /\ ~(now - lastCheckTime < 1)
    /\ disc' = [disc EXCEPT ![c] = [IdleCall EXCEPT !.mode = "periodic", !.pc = "running",
                                                    !.epoch = hist.epoch, !.t0 = now]]
    /\ UNCHANGED <<cmdVars, relayVars, pluginSettings, managerSettings, uploaderSettings,
                   detectedUpicPath, availabilityCache, lastCheckTime, now, env, op, hist>>

\* performPeriodicCheck after isUPicProcessRunning: a running uPic ends the check;
\* so does a live cache entry of the detected path; otherwise
\* checkUPicAvailability, lastCheckTime, cleanExpiredCache
PeriodicCheckContinues(c, ok) ==
    /\ disc[c].pc = "running"
    /\ ok \/ env.running
    /\ LET call == disc[c]
           finished == [call EXCEPT !.pc = "done", !.t0 = 0, !.result = detectedUpicPath]
           consulted == detectedUpicPath # NoPath
                        /\ \E p \in CachePaths : availabilityCache[p] # NoEntry
           cached == getCachedAvailability(availabilityCache, detectedUpicPath, now)
           cache1 == IF consulted THEN cached.cache ELSE availabilityCache
       IN IF isUPicProcessRunning(ok)
          THEN /\ lastCheckTime' = call.t0
               /\ disc' = [disc EXCEPT ![c] = finished]
               /\ UNCHANGED <<detectedUpicPath, availabilityCache, hist>>
          ELSE IF consulted /\ cached.value # "null"
          THEN /\ disc' = [disc EXCEPT ![c] = finished]
               /\ UNCHANGED <<detectedUpicPath, availabilityCache, lastCheckTime, hist>>
          ELSE IF (lastCheckTime > 0 /\ now - lastCheckTime < 1) \/ detectedUpicPath # NoPath
          THEN /\ lastCheckTime' = call.t0
               /\ availabilityCache' = cleanExpiredCache(cache1, now)
               /\ disc' = [disc EXCEPT ![c] = finished]
               /\ UNCHANGED <<detectedUpicPath, hist>>
          ELSE LET cands == detectCandidates(uploaderSettings)
               IN Settle(c, [call EXCEPT !.cands = cands],
                         Scan(cache1, cands, 1, now, call.mode))
    /\ UNCHANGED <<cmdVars, relayVars, pluginSettings, managerSettings, uploaderSettings,
                   now, env, op>>

\* checkUPicAvailability is called (by onload, by uploadFile, by the settings tab's
\* buttons): within five seconds of lastCheckTime it answers from detectedUpicPath;
\* otherwise getAvailableUPicPath, and lastCheckTime becomes the time of the call.
\* available is whether the result is a path
checkUPicAvailability(c) ==
    /\ FreeCaller(c)
    /\ IF lastCheckTime > 0 /\ now - lastCheckTime < 1
       THEN /\ disc' = [disc EXCEPT ![c] = [IdleCall EXCEPT !.mode = "check", !.pc = "done",
                                                            !.epoch = hist.epoch,
                                                            !.result = detectedUpicPath]]
            /\ UNCHANGED <<detectedUpicPath, availabilityCache, lastCheckTime, hist>>
       ELSE IF detectedUpicPath # NoPath
       THEN /\ disc' = [disc EXCEPT ![c] = [IdleCall EXCEPT !.mode = "check", !.pc = "done",
                                                            !.epoch = hist.epoch,
                                                            !.result = detectedUpicPath]]
            /\ lastCheckTime' = now
            /\ UNCHANGED <<detectedUpicPath, availabilityCache, hist>>
       ELSE LET cands == detectCandidates(uploaderSettings)
                call == [IdleCall EXCEPT !.mode = "check", !.cands = cands,
                                         !.epoch = hist.epoch, !.t0 = now]
            IN Settle(c, call, Scan(availabilityCache, cands, 1, now, call.mode))
    /\ UNCHANGED <<cmdVars, relayVars, pluginSettings, managerSettings, uploaderSettings,
                   now, env, op>>

\* the caller has its answer: the call is over
CallEnds(c) ==
    /\ disc[c].pc = "done"
    /\ \A d \in Callers : d > c => disc[d].pc # "idle"
    /\ disc' = [disc EXCEPT ![c] = IdleCall]
    /\ UNCHANGED <<cmdVars, relayVars, pluginSettings, managerSettings, uploaderSettings,
                   detectedUpicPath, availabilityCache, lastCheckTime, now, env, op, hist>>

CacheEnvs == [installed : {{AppPath}, {PathDirPath}}, broken : {{BrewPath}},
              running : BOOLEAN]

CacheInit ==
    /\ RelayAtRest
    /\ doc = <<>>
    /\ task = [t \in Tasks |-> IdleTask]
    /\ pluginSettings = DEFAULT_SETTINGS
    /\ managerSettings = DEFAULT_SETTINGS
    /\ uploaderSettings = DEFAULT_SETTINGS
    /\ detectedUpicPath = NoPath
    /\ availabilityCache = [p \in CachePaths |-> NoEntry]
    /\ lastCheckTime = 0
    /\ now = 1
    /\ env \in CacheEnvs
    /\ disc = [c \in Callers |-> IdleCall]
    /\ op = IdleOp
    /\ batch = IdleBatch
    /\ upload = IdleUpload
    /\ timer = NoTimer
    /\ hist = [epoch |-> 0, detectedEpoch |-> 0, opsDone |-> 0, lastKind |-> "none",
               lastOk |-> FALSE, unfound |-> -1]

CacheNext ==
    \/ \E c \in Callers : CallEnds(c)
    \/ \E c \in Callers : getAvailableUPicPath(c)
    \/ \E c \in Callers : getDiagnosticInfo(c)
    \/ \E c \in Callers : checkUPicAvailability(c)
    \/ \E c \in Callers : performPeriodicCheck(c)
    \/ \E c \in Callers, ok \in BOOLEAN : PeriodicCheckContinues(c, ok)
    \/ \E c \in Callers, ok \in BOOLEAN : PgrepReturns(c, ok)
    \/ \E c \in Callers, outs \in ProbeRuns : ProbeReturns(c, outs)
    \/ \E c \in Callers : LookupReturns(c)
    \/ Tick

SpecCache == CacheInit /\ [][CacheNext]_vars

\* ---------------------------------------------------------------- document patch alone
\* the image references a note may hold: the placeholder, references to a file of
\* the same name with another alt text or in a folder, another image, an embed
PatchRefs ==
    {MdRef(FileName, FileName),
     MdRef(<<"photo">>, FileName),
     MdRef(FileName, <<".", "/">> \o FileName),
     MdRef(<<"photo">>, <<"attachments", "/">> \o FileName),
     MdRef(<<"photo">>, <<"other", ".", "png">>),
     MdRef(<<"photo">>, <<"https://", "host", "/">> \o FileName),
     MdRef(<<"photo">>, <<"my-">> \o FileName),
     [form |-> "embed", alt |-> <<>>, path |-> <<"my-">> \o FileName],
     [form |-> "embed", alt |-> <<>>, path |-> FileName]}

PatchDocs == UNION {[1..n -> PatchRefs] : n \in 0..MaxRefs}

\* URLs uPic may print; "$" is a legal character of a URL
PatchUrls ==
    {UrlOf(1, TRUE), UrlOf(1, FALSE),
     <<"https://", "cdn", "/", "a", "$$", "b", ".", "png">>,
     <<"https://", "cdn", "/", "q", "$&">>}

PatchInit ==
    /\ doc \in PatchDocs
    /\ task = [t \in Tasks |-> IdleTask]
    /\ RelayAtRest
    /\ LocatorAtRest

HasPlaceholder(content) == \E i \in DOMAIN content : content[i] = MdRef(FileName, FileName)

\* replaceImageLinkInDocument(editor, fileName, newUrl, fileName) on the text
CommitRemote(newUrl) ==
    /\ task[1].pc = "idle"
    /\ LET r == replaceImageLinkInDocument(doc, FileName, newUrl, FileName)
       IN /\ doc' = r.content
          /\ task' = [task EXCEPT ![1] = [IdleTask EXCEPT !.pc = "patched", !.url = newUrl,
                                                          !.replaced = r.replaced]]
    /\ UNCHANGED <<cmdVars, locVars, isDesktop, showNotifications, toolKeepsName, processingFiles,
                   tmp, vault, edits>>

\* where in the vault the uploaded asset lies
PatchFilePaths == {FileName, <<"attachments", "/">> \o FileName}

\* the file menu's upload: replaceImageLinkInAllDocuments calls
\* replaceAllImageLinksInDocument(editor, file, newUrl) on the open note
CommitRemoteAll(filePath, newUrl) ==
    /\ task[1].pc = "idle"
    /\ LET r == replaceAllImageLinksInDocument(doc, FileName, filePath, newUrl)
       IN /\ doc' = r.content
          /\ task' = [task EXCEPT ![1] = [IdleTask EXCEPT !.pc = "patchedAll", !.url = newUrl,
                                                          !.replaced = r.replaced]]
    /\ UNCHANGED <<cmdVars, locVars, isDesktop, showNotifications, toolKeepsName, processingFiles,
                   tmp, vault, edits>>

PatchNext ==
    \/ \E newUrl \in PatchUrls : CommitRemote(newUrl)
    \/ \E filePath \in PatchFilePaths, newUrl \in PatchUrls : CommitRemoteAll(filePath, newUrl)

SpecPatch == PatchInit /\ [][PatchNext]_vars

\* ---------------------------------------------------------------- upload all images
\* the references a note holds when the command runs: local images and a remote one
BatchRefs ==
    {MdRef(FileName, FileName),
     MdRef(<<"photo">>, <<"other", ".", "png">>),
     MdRef(FileName, UrlOf(1, FALSE)),
     [form |-> "embed", alt |-> <<>>, path |-> FileName]}

BatchDocs == UNION {[1..n -> BatchRefs] : n \in 1..MaxRefs}

\* what the user types while the uploads run
TypedRef == MdRef(<<"typed">>, <<"typed", ".", "png">>)

BatchInit ==
    /\ doc \in BatchDocs
    /\ task = [t \in Tasks |-> IdleTask]
    /\ RelayAtRest
    /\ LocatorAtRest

\* !imagePath.startsWith('http://') && !imagePath.startsWith('https://')
IsLocalImage(ref) ==
    /\ ref.form = "md"
    /\ ~StartsWith(ref.path, <<"http://">>)
    /\ ~StartsWith(ref.path, <<"https://">>)

\* the matches of imageRegex in the text, in order, that are local images
RECURSIVE LocalImages(_)
LocalImages(content) ==
    IF content = <<>> THEN <<>>
    ELSE (IF IsLocalImage(Head(content)) THEN <<Head(content)>> ELSE <<>>)
         \o LocalImages(Tail(content))

\* uploadAllImages up to its first await: getValue, the local images, newContent
uploadAllImages ==
    /\ batch.pc = "idle"
    /\ batch' = IF LocalImages(doc) = <<>>
                THEN [IdleBatch EXCEPT !.pc = "done"]
                ELSE [pc |-> "uploading", content |-> doc, newContent |-> doc,
                      localImages |-> LocalImages(doc), uploadedCount |-> 0]
    /\ UNCHANGED <<locVars, relayVars, upload, timer>>

\* newContent.replace(fullMatch, newImageMarkdown): the first occurrence
ReplaceMatch(content, fullMatch, url) ==
    ReplaceFirst(content, [kind |-> "exact", isRegex |-> FALSE, alt |-> fullMatch.alt,
                           path |-> fullMatch.path,
                           replacement |-> MdRef(fullMatch.alt, url)])

\* uploadFile(imagePath) returns for the next local image; after the last one
\* the loop ends and editor.setValue(newContent) runs if anything was uploaded
BatchUploadReturns(ok) ==
    /\ batch.pc = "uploading"
    /\ LET match == Head(batch.localImages)
           rest == Tail(batch.localImages)
           n == Len(batch.content) - Len(rest)
           newContent == IF ok THEN ReplaceMatch(batch.newContent, match, UrlOf(n, FALSE))
                         ELSE batch.newContent
           uploadedCount == IF ok THEN batch.uploadedCount + 1 ELSE batch.uploadedCount
       IN IF rest # <<>>
          THEN /\ batch' = [batch EXCEPT !.newContent = newContent, !.localImages = rest,
                                         !.uploadedCount = uploadedCount]
               /\ doc' = doc
          ELSE /\ batch' = [IdleBatch EXCEPT !.pc = "done", !.uploadedCount = uploadedCount]
               /\ doc' = IF uploadedCount > 0 THEN newContent ELSE doc
    /\ UNCHANGED <<locVars, isDesktop, showNotifications, toolKeepsName, processingFiles,
                   tmp, vault, edits, task, upload, timer>>

\* the user types a reference at the end of the note while the uploads run
UserTypes ==
    /\ batch.pc = "uploading"
    /\ edits < MaxEdits
    /\ doc' = Append(doc, TypedRef)
    /\ edits' = edits + 1
    /\ UNCHANGED <<cmdVars, locVars, isDesktop, showNotifications, toolKeepsName,
                   processingFiles, tmp, vault, task>>

BatchNext ==
    \/ uploadAllImages
    \/ \E ok \in BOOLEAN : BatchUploadReturns(ok)
    \/ UserTypes

SpecBatch == BatchInit /\ [][BatchNext]_vars

\* ---------------------------------------------------------------- uploadFile
\* The text a command prints is a sequence of lines (the pieces between "\n"), a
\* line a sequence of characters: a blank, the text "https://" (or "http://"),
\* any other character.
Http == "https://"

Chars == {" ", Http, "x"}

Lines == UNION {[1..n -> Chars] : n \in 0..MaxLine}

Outputs == UNION {[1..n -> Lines] : n \in 1..MaxLines}

\* what the command may print on stderr
Stderrs == {<<>>, <<"request timeout">>}

\* the files uploadFile is called for
UploadFiles == {"image.png", "timeout.png"}

IsSpace(ch) == ch \in {" ", "\n"}

RECURSIVE TrimStart(_)
TrimStart(str) ==
    IF str # <<>> /\ IsSpace(Head(str)) THEN TrimStart(Tail(str)) ELSE str

RECURSIVE TrimEnd(_)
TrimEnd(str) ==
    IF str # <<>> /\ IsSpace(str[Len(str)]) THEN TrimEnd(SubSeq(str, 1, Len(str) - 1))
    ELSE str

\* String.prototype.trim
Trim(str) == TrimEnd(TrimStart(str))

\* the lines joined by "\n": the text as one string
RECURSIVE Join(_)
Join(lines) ==
    IF Len(lines) = 1 THEN Head(lines) ELSE Head(lines) \o <<"\n">> \o Join(Tail(lines))

\* str.split('\n')
RECURSIVE Split(_, _)
Split(str, line) ==
    IF str = <<>> THEN <<line>>
    ELSE IF Head(str) = "\n" THEN <<line>> \o Split(Tail(str), <<>>)
    ELSE Split(Tail(str), Append(line, Head(str)))

\* the loop over the lines: the first line that, trimmed, starts with http(s)://
RECURSIVE FirstHttpLine(_)
FirstHttpLine(lines) ==
    IF lines = <<>> THEN NoUrl
    ELSE LET trimmedLine == Trim(Head(lines))
         IN IF StartsWith(trimmedLine, <<Http>>) THEN trimmedLine
            ELSE FirstHttpLine(Tail(lines))

\* the characters [^\s]+ takes from position j on
RECURSIVE NonSpaceRun(_, _)
NonSpaceRun(str, j) ==
    IF j > Len(str) \/ IsSpace(str[j]) THEN <<>>
    ELSE <<str[j]>> \o NonSpaceRun(str, j + 1)

\* output.match(/(https?:\/\/[^\s]+)/g)[0]: the leftmost match
RECURSIVE FirstUrlMatch(_, _)
FirstUrlMatch(str, i) ==
    IF i > Len(str) THEN NoUrl
    ELSE IF str[i] = Http /\ NonSpaceRun(str, i + 1) # <<>>
    THEN <<Http>> \o NonSpaceRun(str, i + 1)
    ELSE FirstUrlMatch(str, i + 1)

\* parseUploadOutput without its second attempt
parseUploadOutputLinesOnly(output) ==
    IF Trim(output) = <<>> THEN NoUrl
    ELSE FirstHttpLine(Split(Trim(output), <<>>))

\* parseUploadOutput(output), output the text as one string
parseUploadOutput(output) ==
    IF Trim(output) = <<>> THEN NoUrl
    ELSE LET line == FirstHttpLine(Split(Trim(output), <<>>))
         IN IF line # NoUrl THEN line ELSE FirstUrlMatch(output, 1)

\* the command line uploadFile builds (the path is quoted only when it has a blank)
Command(availableUpicPath, filePath) ==
    availableUpicPath \o <<" -u \"", filePath, "\" -o url">>

\* the message of the error exec rejects with when the command fails or is killed
ExecErrorMessage(command, stderr) == <<"Command failed: ">> \o command \o <<"\n">> \o stderr

\* message.includes('timeout')
IncludesTimeout(message) ==
    \E i \in DOMAIN message : message[i] \in {"timeout.png", "request timeout"}

TimeoutError == <<"Upload timeout - please check your network connection">>

ParseError == <<"Failed to parse upload URL from uPic output">>

\* message.includes('ENOENT')
IncludesENOENT(message) ==
    \E i \in DOMAIN message : message[i] \in {"spawn /bin/sh ENOENT"}

NotFoundError == <<"uPic application not found - please check the path in settings">>

NotAvailableError == <<"uPic is not available. ">>

NotDesktopError == <<"File upload is only available on desktop platforms">>

\* what the shell prints when the executable of the command does not exist
ShellNotFound == <<"/bin/sh: ">> \o AppPath \o <<": No such file or directory">>

\* an uploadFile without its catch block: the rejection of exec reaches the caller
UploadFailureRethrows(message, filePath) ==
    [success |-> FALSE, url |-> NoUrl, error |-> <<>>, threw |-> TRUE, originalPath |-> filePath]

\* the catch block of uploadFile
UploadFailure(message, filePath) ==
    [success |-> FALSE, url |-> NoUrl,
     error |-> IF IncludesTimeout(message) THEN TimeoutError
               ELSE IF IncludesENOENT(message) THEN NotFoundError
               ELSE message,
     threw |-> FALSE, originalPath |-> filePath]

UploadInit ==
    /\ doc = <<>>
    /\ task = [t \in Tasks |-> IdleTask]
    /\ isDesktop \in BOOLEAN
    /\ showNotifications = TRUE
    /\ toolKeepsName = TRUE
    /\ processingFiles = {}
    /\ tmp = [p \in TempPaths |-> NoFile]
    /\ vault = [n \in VaultNames |-> 0]
    /\ edits = 0
    /\ LocatorAtRest

\* uploadFile(filePath) up to the await of exec: the command runs in a shell, which
\* either replaces itself with uPic (direct) or stays as its parent
uploadFile(filePath, direct) ==
    /\ upload.pc = "idle"
    /\ isDesktop
    /\ upload' = [IdleUpload EXCEPT !.pc = "exec", !.file = filePath,
                                    !.command = Command(AppPath, filePath),
                                    !.child = IF direct THEN "uPic" ELSE "sh",
                                    !.procs = IF direct THEN {"uPic"} ELSE {"sh", "uPic"}]
    /\ UNCHANGED <<locVars, relayVars, batch, timer>>

\* uploadFile(filePath) where Platform.isDesktop is false
UploadFileNotDesktop(filePath) ==
    /\ upload.pc = "idle"
    /\ ~isDesktop
    /\ upload' = [IdleUpload EXCEPT
           !.pc = "done", !.file = filePath,
           !.result = [success |-> FALSE, url |-> NoUrl, error |-> NotDesktopError,
                       threw |-> FALSE, originalPath |-> filePath]]
    /\ UNCHANGED <<locVars, relayVars, batch, timer>>

\* uploadFile(filePath) when getAvailableUPicPath found no path
UploadFileNoTool(filePath) ==
    /\ upload.pc = "idle"
    /\ isDesktop
    /\ upload' = [IdleUpload EXCEPT
           !.pc = "done", !.file = filePath,
           !.result = [success |-> FALSE, url |-> NoUrl, error |-> NotAvailableError,
                       threw |-> FALSE, originalPath |-> filePath]]
    /\ UNCHANGED <<locVars, relayVars, batch, timer>>

\* a second passes while the command runs
UploadClock ==
    /\ upload.pc = "exec"
    /\ upload.elapsed <= uploadTimeout
    /\ upload' = [upload EXCEPT !.elapsed = @ + 1]
    /\ UNCHANGED <<locVars, relayVars, batch, timer>>

\* an uploadFile that takes whatever parseUploadOutput gave for the URL
CommandExitsUnparsed(code, stdout, stderr) ==
    /\ upload.pc = "exec"
    /\ upload.elapsed <= uploadTimeout
    /\ LET url == parseUploadOutput(Join(stdout))
       IN upload' = [upload EXCEPT
              !.pc = "done", !.procs = {}, !.code = code, !.stdout = stdout,
              !.result = IF code # 0
                         THEN UploadFailure(ExecErrorMessage(upload.command, stderr),
                                            upload.file)
                         ELSE [success |-> TRUE, url |-> url, error |-> <<>>,
                               threw |-> FALSE, originalPath |-> upload.file]]
    /\ UNCHANGED <<locVars, relayVars, batch, timer>>

\* the command ends within the time limit: with exit code 0 the URL is parsed from
\* what it printed, with any other code exec rejects
CommandExits(code, stdout, stderr) ==
    /\ upload.pc = "exec"
    /\ upload.elapsed <= uploadTimeout
    /\ LET url == parseUploadOutput(Join(stdout))
       IN upload' = [upload EXCEPT
              !.pc = "done", !.procs = {}, !.code = code, !.stdout = stdout,
              !.result = IF code # 0
                         THEN UploadFailure(ExecErrorMessage(upload.command, stderr),
                                            upload.file)
                         ELSE IF url = NoUrl
                         THEN [success |-> FALSE, url |-> NoUrl, error |-> ParseError,
                               threw |-> FALSE, originalPath |-> upload.file]
                         ELSE [success |-> TRUE, url |-> url, error |-> <<>>,
                               threw |-> FALSE, originalPath |-> upload.file]]
    /\ UNCHANGED <<locVars, relayVars, batch, timer>>

\* the executable is gone (removed since it was cached, or accepted unseen because
\* a uPic process was running): the shell reports it and exits with code 127
CommandNotFound ==
    /\ upload.pc = "exec"
    /\ upload.elapsed <= uploadTimeout
    /\ upload' = [upload EXCEPT
           !.pc = "done", !.procs = {}, !.code = 127,
           !.result = UploadFailure(ExecErrorMessage(upload.command, ShellNotFound),
                                      upload.file)]
    /\ UNCHANGED <<locVars, relayVars, batch, timer>>

\* exec cannot start the shell (spawn fails): it rejects with the system error
SpawnFails ==
    /\ upload.pc = "exec"
    /\ upload.elapsed = 0
    /\ upload' = [upload EXCEPT
           !.pc = "done", !.procs = {}, !.code = -2,
           !.result = UploadFailure(<<"spawn /bin/sh ENOENT">>, upload.file)]
    /\ UNCHANGED <<locVars, relayVars, batch, timer>>

\* the command ran longer than uploadTimeout: exec sends SIGTERM to its child
\* process and rejects; the catch block builds the result
TimeoutFires(stderr) ==
    /\ upload.pc = "exec"
    /\ upload.elapsed > uploadTimeout
    /\ upload' = [upload EXCEPT
           !.pc = "done", !.procs = @ \ {upload.child}, !.code = 143,
           !.result = UploadFailure(ExecErrorMessage(upload.command, stderr), upload.file)]
    /\ UNCHANGED <<locVars, relayVars, batch, timer>>

\* a process that outlived the call ends by itself
ProcessEnds ==
    /\ upload.pc = "done"
    /\ upload.procs # {}
    /\ upload' = [upload EXCEPT !.procs = {}]
    /\ UNCHANGED <<locVars, relayVars, batch, timer>>

UploadNext ==
    \/ \E filePath \in UploadFiles, direct \in BOOLEAN : uploadFile(filePath, direct)
    \/ \E filePath \in UploadFiles : UploadFileNotDesktop(filePath)
    \/ \E filePath \in UploadFiles : UploadFileNoTool(filePath)
    \/ UploadClock
    \/ CommandNotFound
    \/ SpawnFails
    \/ \E code \in {0, 1}, stdout \in Outputs, stderr \in Stderrs :
          CommandExits(code, stdout, stderr)
    \/ \E stderr \in Stderrs : TimeoutFires(stderr)
    \/ ProcessEnds

SpecUpload == UploadInit /\ [][UploadNext]_vars

\* ---------------------------------------------------------------- paste and drop events
\* The paste and drop listeners of registerEventListeners.  handlePasteEvent and
\* handleDropEvent call preventDefault and stopPropagation on an event that carries
\* an image and hand the image to processImageFile / processDroppedImageFileFixed
\* at once, so an event is intercepted exactly when one of the steps below is taken.
EventInit ==
    /\ doc = <<>>
    /\ task = [t \in Tasks |-> IdleTask]
    /\ RelayAtRest
    /\ LocatorAtRest

\* pasteHandler with an image on the clipboard and a Markdown view active
PasteEvent(t, f) ==
    /\ pluginSettings.autoUpload
    /\ BeginPaste(t, f) \/ RejectDuplicate(f)

\* dropHandler with an image file among the dropped files
DropEvent(t, f, src) ==
    /\ pluginSettings.autoUpload
    /\ BeginDrop(t, f, src)

EventNext ==
    \/ \E t \in Tasks, f \in Files : PasteEvent(t, f)
    \/ \E t \in Tasks, f \in Files, src \in DropSources : DropEvent(t, f, src)
    \/ \E partial \in Partials : UpdateSettingsBegins(partial)
    \/ ToggleAutoUploadBegins
    \/ \E imported \in Imports : ImportBegins(imported)
    \/ ResetBegins
    \/ \E ok \in BOOLEAN : SaveReturns(ok)

SpecEvents == EventInit /\ [][EventNext]_vars

\* ---------------------------------------------------------------- the periodic-check timer
Plugins == 1..MaxPlugins

\* setInterval returns a timer that was not there before
NewTimer(tm) == Cardinality(tm.live) + tm.loads + 1

\* startPeriodicCheck, as far as the timer goes (the check it runs at once is
\* performPeriodicCheck)
startPeriodicCheck(tm) ==
    IF tm.isPeriodicCheckRunning THEN tm
    ELSE [tm EXCEPT !.isPeriodicCheckRunning = TRUE,
                    !.globalCheckInterval = NewTimer(tm),
                    !.live = @ \cup {NewTimer(tm)}]

\* new UPicUploader(plugin, settings)
Construct(tm) ==
    LET counted == [tm EXCEPT !.instanceCount = @ + 1]
    IN IF ~counted.isPeriodicCheckRunning THEN startPeriodicCheck(counted) ELSE counted

\* UPicUploader.stopPeriodicCheck()
stopPeriodicCheck(tm) ==
    [tm EXCEPT !.live = IF tm.globalCheckInterval # 0 THEN @ \ {tm.globalCheckInterval} ELSE @,
               !.globalCheckInterval = 0,
               !.isPeriodicCheckRunning = FALSE]

\* uploader.destroy()
destroy(tm) ==
    LET counted == [tm EXCEPT !.instanceCount = @ - 1]
    IN IF counted.instanceCount <= 0
       THEN [stopPeriodicCheck(counted) EXCEPT !.instanceCount = 0]
       ELSE counted

\* an onunload that leaves the uploader and the timer alone
UnloadWithoutCleanup(tm) == tm

\* onunload: uploader.destroy(), then UPicUploader.stopPeriodicCheck()
Unload(tm) == stopPeriodicCheck(destroy(tm))

\* no plugin instance is loaded yet
TimerInit == CacheInit

\* a function object: the expression that made it, the plugin instance, and
\* which of its runs of registerEventListeners (or of the clean-up callback)
\* evaluated the expression
Closure(site, p, load) == [site |-> site, plugin |-> p, load |-> load]

\* document.addEventListener(type, fn, { capture: true })
addEventListener(listeners, type, fn) == listeners \cup {[type |-> type, fn |-> fn]}

\* document.removeEventListener(type, fn, { capture: true }): the listener that
\* was added with this very function object goes, if there is one
removeEventListener(listeners, type, fn) == listeners \ {[type |-> type, fn |-> fn]}

\* registerEventListeners, as far as the DOM listeners go
registerEventListeners(listeners, p, load) ==
    LET pasted == addEventListener(listeners, "paste", Closure("pasteHandler", p, load))
        dropped == addEventListener(pasted, "drop", Closure("dropHandler", p, load))
    IN addEventListener(dropped, "dragover", Closure("(evt) => evt.preventDefault()", p, load))

\* the callbacks handed to this.register, which Component.unload runs: the
\* function handed to removeEventListener for dragover is a new arrow function
Unregister(listeners, p, load) ==
    LET pasted == removeEventListener(listeners, "paste", Closure("pasteHandler", p, load))
        dropped == removeEventListener(pasted, "drop", Closure("dropHandler", p, load))
    IN removeEventListener(dropped, "dragover",
                           Closure("(evt) => evt.preventDefault(), clean-up", p, load))

\* the run of registerEventListeners that made the handlers of a loaded instance
LoadOf(listeners, p) ==
    (CHOOSE l \in listeners : l.type = "paste" /\ l.fn.plugin = p).fn.load

\* a number for the function objects of a new run of registerEventListeners:
\* one that no listener of this instance that is still registered carries
NextLoad(listeners, p) == Cardinality({l \in listeners : l.fn.plugin = p}) + 1

\* a plugin instance is loaded: onload constructs its UPicUploader and registers
\* its listeners
onload(p) ==
    /\ p \notin timer.loaded
    /\ timer.loads < MaxLoads
    /\ timer' = [Construct(timer) EXCEPT
           !.loaded = @ \cup {p}, !.loads = @ + 1,
           !.listeners = registerEventListeners(@, p, NextLoad(timer.listeners, p))]
    /\ UNCHANGED <<locVars, relayVars, batch, upload>>

\* a plugin instance is unloaded (disabled, updated, or its window closed):
\* onunload, then the callbacks it registered
onunload(p) ==
    /\ p \in timer.loaded
    /\ timer' = [Unload(timer) EXCEPT
           !.loaded = @ \ {p},
           !.listeners = Unregister(@, p, LoadOf(timer.listeners, p))]
    /\ UNCHANGED <<locVars, relayVars, batch, upload>>

\* the interval timer fires (the first time right after startPeriodicCheck made
\* it): its callback calls performPeriodicCheck
TimerFires(c) ==
    /\ timer.live # {}
    /\ performPeriodicCheck(c)

TimerNext ==
    \/ \E p \in Plugins : onload(p)
    \/ \E p \in Plugins : onunload(p)
    \/ \E c \in Callers : TimerFires(c)
    \/ \E c \in Callers, ok \in BOOLEAN : PeriodicCheckContinues(c, ok)
    \/ \E c \in Callers, ok \in BOOLEAN : PgrepReturns(c, ok)
    \/ \E c \in Callers, outs \in ProbeRuns : ProbeReturns(c, outs)
    \/ \E c \in Callers : LookupReturns(c)
    \/ Tick

SpecTimer == TimerInit /\ [][TimerNext]_vars

\* ---------------------------------------------------------------- deleteTempFile alone
\* the temp directory as a call may find it: paths with no file, with a file, with
\* a file that may not be deleted
DeleteInit ==
    /\ isDesktop \in BOOLEAN
    /\ tmp \in [TempPaths -> {NoFile, [bytes |-> 1, owner |-> 1], LockedFile}]
    /\ doc = <<>>
    /\ task = [t \in Tasks |-> IdleTask]
    /\ processingFiles = {}
    /\ showNotifications = TRUE
    /\ toolKeepsName = TRUE
    /\ vault = [n \in VaultNames |-> 0]
    /\ edits = 0
    /\ LocatorAtRest

\* await this.deleteTempFile(filePath), a first time (pc "once") and then a
\* second time for the same path (pc "twice")
DeleteTempFileCall(filePath) ==
    /\ \/ task[1].pc = "idle"
       \/ task[1].pc = "once" /\ task[1].temp1 = filePath
    /\ LET r == DeleteTempFileReturns(tmp, filePath)
       IN /\ tmp' = r.fs
          /\ task' = [task EXCEPT ![1].pc = IF task[1].pc = "idle" THEN "once" ELSE "twice",
                                  ![1].temp1 = filePath,
                                  ![1].res = IF r.threw THEN "threw" ELSE "returned",
                                  ![1].notice = IF r.warned THEN "warning" ELSE "none"]
    /\ UNCHANGED <<cmdVars, locVars, isDesktop, showNotifications, toolKeepsName, processingFiles,
                   doc, vault, edits>>

DeleteNext == \E filePath \in TempPaths \cup {NoPath} : DeleteTempFileCall(filePath)

SpecDelete == DeleteInit /\ [][DeleteNext]_vars

\* ---------------------------------------------------------------- diagnosis: status and label
\* what getDiagnosticInfo notes of a path it tests: a path that is not there is
\* not executable, and only a path that is there and executable is probed
TestedPaths ==
    {tp \in [exists : BOOLEAN, executable : BOOLEAN, testResult : BOOLEAN] :
        /\ tp.executable => tp.exists
        /\ tp.testResult => tp.executable}

\* the status getDiagnosticInfo derives from the paths it tested
DiagnosticStatus(testedPaths) ==
    IF \E i \in DOMAIN testedPaths : testedPaths[i].testResult THEN "available"
    ELSE LET existingPaths == SelectSeq(testedPaths, LAMBDA tp : tp.exists)
             executablePaths == SelectSeq(existingPaths, LAMBDA tp : tp.executable)
         IN IF Len(existingPaths) = 0 THEN "not_found"
            ELSE IF Len(executablePaths) = 0 THEN "not_executable"
            ELSE "configuration_error"

UnknownStatusText == "? unknown status"

\* getStatusText(status); the labels are given in English
getStatusText(status) ==
    CASE status = "available" -> "+ available"
      [] status = "not_found" -> "x not found"
      [] status = "not_executable" -> "! not executable"
      [] status = "test_failed" -> "x test failed"
      [] OTHER -> UnknownStatusText

DiagInit ==
    /\ doc = <<>>
    /\ task = [t \in Tasks |-> IdleTask]
    /\ RelayAtRest
    /\ pluginSettings = DEFAULT_SETTINGS
    /\ managerSettings = DEFAULT_SETTINGS
    /\ uploaderSettings = DEFAULT_SETTINGS
    /\ detectedUpicPath = NoPath
    /\ availabilityCache = [p \in CachePaths |-> NoEntry]
    /\ lastCheckTime = 0
    /\ now = 0
    /\ env = [installed |-> {AppPath}, broken |-> {}, running |-> FALSE]
    /\ disc = [c \in Callers |-> IdleCall]
    /\ op = [kind |-> "none", pc |-> "idle", testedPaths |-> <<>>, status |-> "", text |-> ""]
    /\ batch = IdleBatch
    /\ upload = IdleUpload
    /\ timer = NoTimer
    /\ hist = [epoch |-> 0, detectedEpoch |-> 0, opsDone |-> 0, lastKind |-> "none",
               lastOk |-> FALSE, unfound |-> -1]

\* the command 'Diagnose uPic' calls uploader.getDiagnosticInfo()
DiagnoseBegins ==
    /\ op.pc = "idle"
    /\ op' = [op EXCEPT !.kind = "diagnose", !.pc = "testing"]
    /\ UNCHANGED <<cmdVars, relayVars, pluginSettings, managerSettings, uploaderSettings,
                   detectedUpicPath, availabilityCache, lastCheckTime, now, env, disc, hist>>

\* getDiagnosticInfo has tested one more of its paths
PathTested(tp) ==
    /\ op.pc = "testing"
    /\ Len(op.testedPaths) < MaxTested
    /\ op' = [op EXCEPT !.testedPaths = Append(@, tp)]
    /\ UNCHANGED <<cmdVars, relayVars, pluginSettings, managerSettings, uploaderSettings,
                   detectedUpicPath, availabilityCache, lastCheckTime, now, env, disc, hist>>

\* getDiagnosticInfo returns its status, and the command writes
\* getStatusText(diagnostic.status) into the report and the notice
DiagnosisShown ==
    /\ op.pc = "testing"
    /\ Len(op.testedPaths) >= 1
    /\ LET status == DiagnosticStatus(op.testedPaths)
       IN op' = [op EXCEPT !.pc = "shown", !.status = status, !.text = getStatusText(status)]
    /\ UNCHANGED <<cmdVars, relayVars, pluginSettings, managerSettings, uploaderSettings,
                   detectedUpicPath, availabilityCache, lastCheckTime, now, env, disc, hist>>

DiagNext ==
    \/ DiagnoseBegins
    \/ \E tp \in TestedPaths : PathTested(tp)
    \/ DiagnosisShown

SpecDiag == DiagInit /\ [][DiagNext]_vars

\* ================================================================ claims

\* C1: of the processImageFile calls that overlap in time and carry the same
\* fingerprint, only one is past the processingFiles guard at any moment.
C1_OneTaskPerFingerprint ==
    \A t, u \in Tasks :
        (t # u /\ InFlight(t) /\ InFlight(u)
              /\ task[t].kind = "paste" /\ task[u].kind = "paste")
            => FileId(task[t].file) # FileId(task[u].file)

\* C2: a processImageFile call that is rejected as a duplicate leaves
\* processingFiles as it was: only the call that inserted a fingerprint removes it.
C2_RejectedCallChangesNothing ==
    [][(\E f \in Files : RejectDuplicate(f)) => processingFiles' = processingFiles]_vars

\* C3: a file of the user's that is in the vault root (a dragged original, or a
\* file that has the image's name) is never overwritten or deleted by a task.
C3_UserFilesKept ==
    [][\A n \in VaultNames : vault[n] = UserBytes => vault'[n] = UserBytes]_vars

\* C4: when a task is done, no temp file it created is left in the temp directory.
C4_TempFilesDeleted ==
    \A t \in Tasks :
        task[t].pc = "done" => \A p \in TempPaths : tmp[p].owner # t

\* C5: a task whose upload succeeded and whose patch found nothing to replace has
\* shown a warning and has not deleted the vault copy.
C5_UnpatchedUploadWarns ==
    \A t \in Tasks :
        (task[t].pc = "done" /\ task[t].res = "ok" /\ ~task[t].replaced)
            => (task[t].notice = "warning" /\ ~task[t].vaultCopyDeleted)

\* C6: once UPicUploader.updateSettings has run, detectedUpicPath and every entry of
\* availabilityCache come from a discovery that started after that update: nothing
\* a discovery that was awaiting an answer during the update produced is stored.
C6_NoStaleDiscovery ==
    /\ detectedUpicPath # NoPath => hist.detectedEpoch = hist.epoch
    /\ \A p \in CachePaths :
          availabilityCache[p] # NoEntry => availabilityCache[p].epoch = hist.epoch

\* C7: when a settings-changing operation (plugin.updateSettings, Toggle auto upload,
\* Import, Reset) has completed with its save succeeding, the plugin, the
\* SettingsManager and the UPicUploader hold equal settings.
C7_SettingsAgree ==
    (op.pc = "idle" /\ hist.opsDone > 0 /\ hist.lastOk) =>
        (pluginSettings = managerSettings /\ uploaderSettings = managerSettings)

\* C8: no step of a task whose upload failed, the step that receives the failure
\* included, changes the text of the document.
C8_FailedUploadLeavesDocument ==
    [][\A t \in Tasks :
          ((task[t].res = "fail" \/ task'[t].res = "fail") /\ task'[t] # task[t])
              => doc' = doc]_vars

\* a failed task is done and its placeholder is in the document
C8_Witness ==
    \E t \in Tasks :
        /\ task[t].pc = "done"
        /\ task[t].res = "fail"
        /\ \E i \in DOMAIN doc : doc[i] = MdRef(task[t].file.name, task[t].file.name)

\* C9: when the tasks for different images of one display name have all uploaded
\* successfully and the user has not edited the text, the document holds exactly
\* one reference to each task's URL.
C9_OwnUrlPerTask ==
    (/\ edits = 0
     /\ \A t \in Tasks : task[t].pc = "done" /\ task[t].res = "ok"
     /\ \A t, u \in Tasks : t # u => FileId(task[t].file) # FileId(task[u].file))
        => \A t \in Tasks : Cardinality({i \in DOMAIN doc : doc[i].path = task[t].url}) = 1

\* C10: no step writes over a file that exists in the temp directory.
C10_NoOverwrite ==
    [][\A p \in TempPaths : (tmp[p] # NoFile /\ tmp'[p] # NoFile) => tmp'[p] = tmp[p]]_vars

\* C11: at any time at most one task per fingerprint (name, size, lastModified) is
\* between acceptance and completion, whichever entry point started it.
C11_OneTaskPerFingerprintAnyEntry ==
    \A t, u \in Tasks :
        (t # u /\ InFlight(t) /\ InFlight(u))
            => FileId(task[t].file) # FileId(task[u].file)

\* C12: for every text that contains the placeholder ![name](name) and every URL,
\* replaceImageLinkInDocument returns true and leaves a text that contains
\* ![name](url) and no occurrence of ![name](name).
C12_PlaceholderReplaced ==
    [][\A newUrl \in PatchUrls :
          (CommitRemote(newUrl) /\ HasPlaceholder(doc)) =>
              /\ task'[1].replaced
              /\ \E i \in DOMAIN doc' : doc'[i] = MdRef(FileName, newUrl)
              /\ ~HasPlaceholder(doc')]_vars

\* C13: if the placeholder occurs nowhere in the text, replaceImageLinkInDocument
\* returns false and the text is what it was.
C13_NoPlaceholderNoChange ==
    [][\A newUrl \in PatchUrls :
          (CommitRemote(newUrl) /\ ~HasPlaceholder(doc)) =>
              (~task'[1].replaced /\ doc' = doc)]_vars

\* C14: every write of the text that follows an upload is computed from a getValue()
\* taken after the upload returned: the text the write is computed from is the
\* text the editor holds when it is written.
C14_WritesFromCurrentText ==
    [][\A ok \in BOOLEAN :
          (BatchUploadReturns(ok) /\ doc' # doc) => batch.content = doc]_vars

\* C15: short of updateSettings, an entry leaves the availability cache only when
\* it is older than its window: 2 * cacheTimeout when it says available,
\* cacheTimeout when it says unavailable; until then reads are served from it.
C15_EntriesLiveTheirWindow ==
    [][\A p \in CachePaths :
          (/\ availabilityCache[p] # NoEntry
           /\ availabilityCache'[p] = NoEntry
           /\ hist'.epoch = hist.epoch)
          => now - availabilityCache[p].timestamp >
                 (IF availabilityCache[p].available THEN 2 * cacheTimeout
                  ELSE cacheTimeout)]_vars

\* C16: once a discovery has stored its path, the stored path, which every later
\* getAvailableUPicPath call returns without starting a process, stays the same
\* until the next settings update
C16_DetectedPathStays ==
    [][(detectedUpicPath # NoPath /\ hist'.epoch = hist.epoch)
           => detectedUpicPath' = detectedUpicPath]_vars

\* the candidates a call has tested come in the order of its list, none left out
InListOrder(call) ==
    /\ \A i \in 1..Len(call.tested) - 1 : call.tested[i] < call.tested[i + 1]
    /\ \A i \in 1..Len(call.tested) : \A k \in 1..call.tested[i] - 1 :
           call.cands[k].kind = "path" => \E j \in 1..i - 1 : call.tested[j] = k

\* the test a call is waiting for turns out positive in this step: the call's
\* candidate gets a new cache entry that says available
TestsPositive(c) ==
    /\ disc[c].pc \in {"pgrep", "probe"}
    /\ disc'[c] # disc[c]
    /\ availabilityCache'[disc[c].path] # availabilityCache[disc[c].path]
    /\ availabilityCache'[disc[c].path].available
    /\ availabilityCache'[disc[c].path].timestamp = now

\* C17: a discovery tests its candidates in the order of the list (configured path,
\* well-known paths, lookup command, PATH directories), and the first candidate that
\* tests positive ends it: that candidate is returned and no further one is tested
C17_FirstPositiveInOrder ==
    [][\A c \in Callers : disc'[c].mode # "diag" =>
           /\ InListOrder(disc'[c])
           /\ TestsPositive(c) =>
                  /\ disc'[c].pc = "done"
                  /\ disc'[c].result = disc[c].path
                  /\ disc'[c].tested = disc[c].tested]_vars

\* a discovery returned the path the lookup command printed, after it had tested
\* the well-known paths and found them wanting
C17_Witness ==
    \E c \in Callers :
        /\ disc[c].pc = "done"
        /\ disc[c].mode = "resolve"
        /\ disc[c].result = PathDirPath
        /\ Len(disc[c].tested) >= 3
        /\ disc[c].cands[disc[c].tested[Len(disc[c].tested)]].kind = "lookup"

\* C18: when a uPic process is running while a candidate without a live cache entry
\* is tested, the test accepts the candidate, caches it as available and does not
\* execute it
C18_RunningProcessVouches ==
    [][\A c \in Callers, ok \in BOOLEAN :
           (PgrepReturns(c, ok) /\ env.running) =>
               /\ availabilityCache'[disc[c].path].available
               /\ availabilityCache'[disc[c].path].timestamp = now
               /\ disc'[c].pc # "probe"]_vars

\* the place of the first line of the text that starts, blanks aside, with http(s)://
HttpLines(stdout) ==
    {i \in DOMAIN stdout :
        \E k \in DOMAIN stdout[i] :
            /\ stdout[i][k] = Http
            /\ \A j \in 1..k - 1 : stdout[i][j] = " "}

\* the line without the blanks at its ends
Stripped(line) ==
    LET inked == {k \in DOMAIN line : line[k] # " "}
    IN SubSeq(line, CHOOSE k \in inked : \A j \in inked : k <= j,
                    CHOOSE k \in inked : \A j \in inked : k >= j)

\* the URLs in a line: http(s):// and the non-blank characters after it, one at least
UrlsIn(line) ==
    {u \in [from : DOMAIN line, to : DOMAIN line] :
        /\ u.from < u.to
        /\ line[u.from] = Http
        /\ \A k \in u.from + 1..u.to : line[k] # " "
        /\ u.to = Len(line) \/ line[u.to + 1] = " "}

\* C19: with exit code 0 uploadFile returns the first line of stdout that, trimmed,
\* starts with http:// or https://; when there is none, the first http(s) URL
\* anywhere in stdout; when there is none either, it fails
C19_UrlOfOutput ==
    (upload.pc = "done" /\ upload.code = 0) =>
        LET r == upload.result
            stdout == upload.stdout
            withUrl == {i \in DOMAIN stdout : UrlsIn(stdout[i]) # {}}
        IN IF HttpLines(stdout) # {}
           THEN /\ r.success
                /\ \E i \in HttpLines(stdout) :
                      /\ \A j \in HttpLines(stdout) : i <= j
                      /\ r.url = Stripped(stdout[i])
           ELSE IF withUrl # {}
           THEN /\ r.success
                /\ \E i \in withUrl : \E u \in UrlsIn(stdout[i]) :
                      /\ \A j \in withUrl : i <= j
                      /\ \A v \in UrlsIn(stdout[i]) : u.from <= v.from
                      /\ r.url = SubSeq(stdout[i], u.from, u.to)
           ELSE ~r.success /\ r.error = ParseError

\* an upload succeeded with a URL found inside a line, no line starting with one
C19_Witness ==
    /\ upload.pc = "done"
    /\ upload.code = 0
    /\ upload.result.success
    /\ HttpLines(upload.stdout) = {}
    /\ Len(upload.stdout) = 2
    /\ UrlsIn(upload.stdout[1]) = {}

\* C20: when the command ran longer than uploadTimeout, uploadFile has returned the
\* timeout failure, and no process started for the upload is running any more
C20_TimeoutKillsUpload ==
    (upload.pc = "done" /\ upload.elapsed > uploadTimeout) =>
        /\ ~upload.result.success
        /\ upload.result.error = TimeoutError
        /\ upload.procs = {}

\* C21: uploadFile never throws or rejects; when it does not succeed it resolves to
\* a result with success = false and an error message
C21_UploadFileNeverThrows ==
    upload.pc = "done" =>
        /\ ~upload.result.threw
        /\ ~upload.result.success => upload.result.error # <<>>

\* uploadFile has resolved to a failure after exec rejected
C21_Witness ==
    /\ upload.pc = "done"
    /\ upload.code = 1
    /\ ~upload.result.success
    /\ upload.result.error = ExecErrorMessage(upload.command, <<>>)

\* C27: a failed upload command is reported as a timeout exactly when the command
\* exceeded uploadTimeout, as 'uPic application not found' exactly when the
\* executable (or the shell to run it) was missing, and with the command's own
\* error message otherwise
C27_FailureKinds ==
    (upload.pc = "done" /\ upload.code \notin {-1, 0}) =>
        LET timedOut == upload.elapsed > uploadTimeout
            missing == upload.code \in {127, -2}
        IN /\ upload.result.error = TimeoutError <=> timedOut
           /\ upload.result.error = NotFoundError <=> missing
           /\ (~timedOut /\ ~missing) =>
                  \E stderr \in Stderrs :
                      upload.result.error = ExecErrorMessage(upload.command, stderr)

\* the reference points at an http(s) URL
IsRemote(ref) == StartsWith(ref.path, <<"http://">>) \/ StartsWith(ref.path, <<"https://">>)

C23_ClearedPathStaysEmpty ==
    [][UpdateSettingsBegins([upicPath |-> NoPath]) =>
           /\ managerSettings'.upicPath = NoPath
           /\ detectCandidates(managerSettings') =
                  detectCandidates([managerSettings EXCEPT !.upicPath = NoPath])]_vars

\* C24: while the autoUpload setting is false (the setting as the last settings
\* operation stored it, no operation being under way), no paste or drop event is
\* intercepted: nothing is inserted into the document, nothing is staged, no task
\* and no upload starts
C24_AutoUploadOffNoIntercept ==
    [][(op.pc = "idle" /\ ~managerSettings.autoUpload) => relayVars' = relayVars]_vars

\* C25: at most one interval timer exists, isPeriodicCheckRunning is true exactly
\* when globalCheckInterval is set, and when a plugin instance has been unloaded no
\* timer remains
C25_OneSharedTimer ==
    /\ [](/\ Cardinality(timer.live) <= 1
          /\ timer.isPeriodicCheckRunning <=> timer.globalCheckInterval # 0
          /\ timer.live = {timer.globalCheckInterval} \ {0})
    /\ [][\A p \in Plugins : onunload(p) => timer'.live = {}]_vars

\* two plugin instances are loaded and share the one timer the first one started
C25_Witness ==
    /\ timer.loaded = Plugins
    /\ timer.instanceCount = 2
    /\ Cardinality(timer.live) = 1

\* C26: when writing the temp file for the upload fails, the task ends in that step:
\* no upload is invoked, the document is not rewritten, and the fingerprint of a
\* pasted file is released
C26_StagingFailureAborts ==
    [][\A t \in Tasks :
           (task[t].pc = "write2" /\ CreateTempWrite(t, FALSE)) =>
               /\ task'[t].pc = "done"
               /\ task'[t].res = "none"
               /\ doc' = doc
               /\ task[t].kind = "paste" => FileId(task[t].file) \notin processingFiles']_vars

\* a paste task has ended on a failed write of its upload file, its placeholder
\* still in the document
C26_Witness ==
    \E t \in Tasks :
        /\ task[t].kind = "paste"
        /\ task[t].pc = "done"
        /\ task[t].res = "none"
        /\ task[t].notice = "error"
        /\ FileId(task[t].file) \notin processingFiles
        /\ \E i \in DOMAIN doc : doc[i] = MdRef(task[t].file.name, task[t].file.name)

\* C28: when getAvailableUPicPath returns a path, availabilityCache holds an entry
\* for that path that says available and has not expired
C28_ReturnedPathIsCachedLive ==
    [][\A c \in Callers :
           (/\ disc[c].pc # "done"
            /\ disc'[c].pc = "done"
            /\ disc'[c].mode = "resolve"
            /\ disc'[c].result # NoPath) =>
               /\ availabilityCache'[disc'[c].result] # NoEntry
               /\ getCachedAvailability(availabilityCache', disc'[c].result, now).value
                      = "true"]_vars

\* C29: checkUPicAvailability answers "not available" only when a discovery made
\* since the last settings update has ended without a working candidate; a check
\* timestamp younger than five seconds is not enough
C29_NotFoundOnlyAfterDiscovery ==
    [][\A c \in Callers :
           (/\ disc[c].pc # "done"
            /\ disc'[c].pc = "done"
            /\ disc'[c].mode = "check"
            /\ disc'[c].result = NoPath) => hist'.unfound = hist'.epoch]_vars

\* the last component of the path
BaseName(path) == SubSeq(path, LastIndexOf(path, "/", Len(path)) + 1, Len(path))

\* the reference is to another file, whose name has the asset's file name in it
NameMerelyContains(ref, fileName) ==
    /\ ~IsRemote(ref)
    /\ Includes(BaseName(ref.path), fileName)
    /\ BaseName(ref.path) # fileName

C31_ExactPlaceholderOnly ==
    [][(task[1].pc = "idle" /\ task'[1].pc = "patched" /\ HasPlaceholder(doc)) =>
           /\ task'[1].replaced
           /\ DOMAIN doc' = DOMAIN doc
           /\ \A i \in DOMAIN doc :
                  IF doc[i] = MdRef(FileName, FileName)
                  THEN doc'[i].form = "md" /\ IsRemote(doc'[i])
                  ELSE doc'[i] = doc[i]]_vars

\* the placeholder was replaced in a note that also holds a reference to the same
\* file under another alt text, which the any-alt pattern would match
C31_Witness ==
    /\ task[1].pc = "patched"
    /\ task[1].replaced
    /\ \E i \in DOMAIN doc : doc[i] = MdRef(FileName, task[1].url)
    /\ \E i \in DOMAIN doc : doc[i] = MdRef(<<"photo">>, FileName)

\* C32: after the right-click upload of a vault file, every embed ![[name]],
\* ![[path]], ![[name without extension]] of the open note has become
\* ![name without extension](url), and the note holds no local reference to the
\* file any more, embed or markdown link
C32_NoLocalReferenceLeft ==
    [][\A filePath \in PatchFilePaths, newUrl \in PatchUrls :
           CommitRemoteAll(filePath, newUrl) =>
               LET targets == {FileName, filePath, WithoutExt(FileName),
                               <<".", "/">> \o FileName, <<".", "/">> \o filePath}
               IN /\ DOMAIN doc' = DOMAIN doc
                  /\ \A i \in DOMAIN doc :
                         /\ (doc[i].form = "embed" /\ doc[i].path \in targets)
                                => doc'[i] = MdRef(WithoutExt(FileName), newUrl)
                         /\ doc'[i].path \notin targets]_vars

\* C33: a candidate whose probe commands only fail is accepted only when the text
\* of one of the errors has 'upic' together with 'missing required options',
\* 'usage' or 'help'; otherwise it is rejected and cached as unavailable
C33_ProbeFailureNeedsVocabulary ==
    [][\A c \in Callers, outs \in ProbeRuns \ {<<"prints", "prints">>} :
           ProbeReturns(c, outs) =>
               LET path == disc[c].path
                   msg(i) == toLowerCase(ProbeErrorMessage(expandPath(path), testCommands[i],
                                                           outs[i]))
                   carries(i) == /\ outs[i] \in {"fails", "timeout"}
                                 /\ Includes(msg(i), <<"upic">>)
                                 /\ \/ Includes(msg(i), <<"missing required options">>)
                                    \/ Includes(msg(i), <<"usage">>)
                                    \/ Includes(msg(i), <<"help">>)
               IN /\ availabilityCache'[path] # NoEntry
                  /\ availabilityCache'[path].available => \E i \in 1..2 : carries(i)]_vars

\* C34: every task that got past the guard of processImageFile finishes in the
\* end, and its fingerprint is then no longer in processingFiles, whatever
\* staging, upload and patching did
C34_AcceptedTaskFinishes ==
    \A t \in Tasks :
        (task[t].kind = "paste" /\ InFlight(t))
            ~> (task[t].pc = "done" /\ FileId(task[t].file) \notin processingFiles)

\* a pasted task has finished through the outer catch and its fingerprint is gone
C34_Witness ==
    \E t \in Tasks :
        /\ task[t].kind = "paste"
        /\ task[t].pc = "done"
        /\ task[t].notice = "error"
        /\ FileId(task[t].file) \notin processingFiles

\* C38: when no plugin instance is loaded (every onload was followed by its
\* onunload), none of the paste, drop and dragover listeners that
\* registerEventListeners added is still registered on the document
C38_NoListenerAfterUnload ==
    timer.loaded = {} => timer.listeners = {}

\* C39: deleteTempFile returns without throwing whether the path has a file, has
\* none or has one that may not be deleted (then it logs a warning), and a
\* second call for the same path leaves the temp directory as the first left it
C39_DeleteNeverThrowsIdempotent ==
    [][\A filePath \in TempPaths \cup {NoPath} :
           DeleteTempFileCall(filePath) =>
               /\ task'[1].res = "returned"
               /\ (isDesktop /\ unlink(tmp, filePath).error # "") =>
                      (task'[1].notice = "warning" /\ tmp' = tmp)
               /\ task[1].pc = "once" => tmp' = tmp]_vars

\* deleteTempFile was called twice for a file that may not be deleted, and twice
\* it returned with a warning
C39_Witness ==
    /\ task[1].pc = "twice"
    /\ isDesktop
    /\ task[1].temp1 # NoPath
    /\ tmp[task[1].temp1] = LockedFile
    /\ task[1].res = "returned"
    /\ task[1].notice = "warning"

\* C40: whatever status getDiagnosticInfo returned (available, not_found,
\* not_executable or configuration_error), the text getStatusText gives for it is
\* a label of that status and not the text for an unknown status
C40_EveryStatusHasLabel ==
    op.pc = "shown" =>
        /\ op.status \in {"available", "not_found", "not_executable", "configuration_error"}
        /\ op.text # UnknownStatusText

\* C37: every result uploadFile returns carries the path it was called with, and
\* is either a success with a URL that starts with http:// or https:// and no
\* error, or a failure with an error text and no URL
C37_ResultWellFormed ==
    upload.pc = "done" =>
        LET r == upload.result
        IN /\ ~r.threw
           /\ r.originalPath = upload.file
           /\ IF r.success
              THEN StartsWith(r.url, <<Http>>) /\ r.error = <<>>
              ELSE r.error # <<>> /\ r.url = NoUrl

\* uPic printed the URL after other words on the same line, and uploadFile
\* returned a success with the URL the pattern found
C37_Witness ==
    /\ upload.pc = "done"
    /\ upload.result.success
    /\ upload.result.originalPath = "image.png"
    /\ \A i \in DOMAIN upload.stdout : ~StartsWith(Trim(upload.stdout[i]), <<Http>>)

\* ---------------------------------------------------------------- SettingsManager, all fields
\* A JavaScript value as loadData, JSON.parse or a caller may hand it over: its
\* typeof, and the payload of that type (the other payloads are left at rest)
JsValue(type, str, num, bool, arr) ==
    [type |-> type, str |-> str, num |-> num, bool |-> bool, arr |-> arr]

JsString(s) == JsValue("string", s, 0, FALSE, <<>>)
JsNumber(n) == JsValue("number", <<>>, n, FALSE, <<>>)
JsNaN == JsValue("number", <<"NaN">>, 0, FALSE, <<>>)
JsBoolean(b) == JsValue("boolean", <<>>, 0, b, <<>>)
JsArray(a) == JsValue("array", <<>>, 0, FALSE, a)
JsUndefined == JsValue("undefined", <<>>, 0, FALSE, <<>>)
JsNull == JsValue("null", <<>>, 0, FALSE, <<>>)

\* !value
Falsy(v) ==
    CASE v.type = "string" -> v.str = <<>>
      [] v.type = "number" -> v.num = 0
      [] v.type = "boolean" -> ~v.bool
      [] v.type \in {"undefined", "null"} -> TRUE
      [] OTHER -> FALSE

\* types.ts DEFAULT_SETTINGS with every field of PluginSettings
DefaultSettings ==
    [upicPath |-> JsString(AppPath),
     autoUpload |-> JsBoolean(TRUE),
     deleteLocalFile |-> JsBoolean(FALSE),
     uploadTimeout |-> JsNumber(30),
     showNotifications |-> JsBoolean(TRUE),
     supportedFormats |-> JsArray(<<JsString(<<"p", "n", "g">>), JsString(<<"j", "p", "g">>)>>)]

\* a validation that lets the formats through as they are
validateSettingsFieldsKeepsFormats(settings) ==
    LET d == DefaultSettings
        boolean(k) == IF settings[k].type # "boolean" THEN d[k] ELSE settings[k]
    IN [upicPath |-> IF Falsy(settings.upicPath) \/ settings.upicPath.type # "string"
                     THEN d.upicPath ELSE settings.upicPath,
        uploadTimeout |-> IF \/ Falsy(settings.uploadTimeout)
                             \/ settings.uploadTimeout.type # "number"
                             \/ settings.uploadTimeout.num <= 0
                          THEN d.uploadTimeout ELSE settings.uploadTimeout,
        supportedFormats |-> settings.supportedFormats,
        autoUpload |-> boolean("autoUpload"),
        deleteLocalFile |-> boolean("deleteLocalFile"),
        showNotifications |-> boolean("showNotifications")]

\* SettingsManager.validateSettings on all six fields: a field that fails its
\* test gets the default; formats that are not non-blank strings are filtered out
validateSettingsFields(settings) ==
    LET d == DefaultSettings
        formats == settings.supportedFormats
        validFormats == SelectSeq(formats.arr,
                                  LAMBDA f : f.type = "string" /\ Len(Trim(f.str)) > 0)
        boolean(k) == IF settings[k].type # "boolean" THEN d[k] ELSE settings[k]
    IN [upicPath |-> IF Falsy(settings.upicPath) \/ settings.upicPath.type # "string"
                     THEN d.upicPath ELSE settings.upicPath,
        uploadTimeout |-> IF \/ Falsy(settings.uploadTimeout)
                             \/ settings.uploadTimeout.type # "number"
                             \/ settings.uploadTimeout.num <= 0
                          THEN d.uploadTimeout ELSE settings.uploadTimeout,
        supportedFormats |-> IF formats.type # "array" \/ Len(formats.arr) = 0
                             THEN d.supportedFormats
                             ELSE IF Len(validFormats) # Len(formats.arr)
                                  THEN IF Len(validFormats) > 0 THEN JsArray(validFormats)
                                       ELSE d.supportedFormats
                                  ELSE formats,
        autoUpload |-> boolean("autoUpload"),
        deleteLocalFile |-> boolean("deleteLocalFile"),
        showNotifications |-> boolean("showNotifications")]

\* values a caller, the data file or an imported text may carry for a field
JsValues ==
    {JsString(<<>>), JsString(<<" ">>), JsString(CustomPath), JsNumber(0), JsNumber(-1),
     JsNumber(60), JsNaN, JsBoolean(TRUE), JsBoolean(FALSE), JsUndefined, JsNull,
     JsArray(<<>>), JsArray(<<JsString(<<" ">>)>>),
     JsArray(<<JsString(<<"g", "i", "f">>), JsString(<<" ">>), JsNumber(60)>>)}

SettingKeys == DOMAIN DefaultSettings

\* what plugin.loadData() resolves to: nothing saved yet, or the parsed data.json
LoadedData ==
    {[type |-> "null", fields |-> <<>>],
     [type |-> "string", fields |-> <<>>],
     [type |-> "object", fields |-> <<>>],
     [type |-> "object", fields |-> [upicPath |-> JsString(<<>>), uploadTimeout |-> JsNumber(-1)]],
     [type |-> "object", fields |-> [supportedFormats |-> JsArray(<<JsString(<<" ">>)>>),
                                      autoUpload |-> JsNull]],
     [type |-> "object", fields |-> [upicPath |-> JsString(CustomPath),
                                      deleteLocalFile |-> JsBoolean(TRUE)]]}

\* texts handed to importSettings
JsonTexts ==
    {"{}", "null", "\"upic\"", "{\"upicPath\":", "{\"upicPath\":\"\",\"uploadTimeout\":\"60\"}",
     "{\"supportedFormats\":[\" \",60],\"showNotifications\":null}",
     "{\"uploadTimeout\":60,\"autoUpload\":false}"}

\* JSON.parse on these texts; type "throws" for the text that is not JSON
JSONparse(jsonString) ==
    CASE jsonString = "{}" -> [type |-> "object", fields |-> <<>>]
      [] jsonString = "null" -> [type |-> "null", fields |-> <<>>]
      [] jsonString = "\"upic\"" -> [type |-> "string", fields |-> <<>>]
      [] jsonString = "{\"upicPath\":\"\",\"uploadTimeout\":\"60\"}" ->
             [type |-> "object", fields |-> [upicPath |-> JsString(<<>>),
                                              uploadTimeout |-> JsString(<<"6", "0">>)]]
      [] jsonString = "{\"supportedFormats\":[\" \",60],\"showNotifications\":null}" ->
             [type |-> "object",
              fields |-> [supportedFormats |-> JsArray(<<JsString(<<" ">>), JsNumber(60)>>),
                          showNotifications |-> JsNull]]
      [] jsonString = "{\"uploadTimeout\":60,\"autoUpload\":false}" ->
             [type |-> "object", fields |-> [uploadTimeout |-> JsNumber(60),
                                              autoUpload |-> JsBoolean(FALSE)]]
      [] OTHER -> [type |-> "throws", fields |-> <<>>]

\* the state after new SettingsManager(app, plugin)
SettingsInit ==
    /\ doc = <<>>
    /\ task = [t \in Tasks |-> IdleTask]
    /\ RelayAtRest
    /\ pluginSettings = DEFAULT_SETTINGS
    /\ managerSettings = DefaultSettings
    /\ uploaderSettings = DEFAULT_SETTINGS
    /\ detectedUpicPath = NoPath
    /\ availabilityCache = [p \in CachePaths |-> NoEntry]
    /\ lastCheckTime = 0
    /\ now = 0
    /\ env = [installed |-> {AppPath}, broken |-> {}, running |-> FALSE]
    /\ disc = [c \in Callers |-> IdleCall]
    /\ op = [kind |-> "none", pc |-> "idle", before |-> DefaultSettings]
    /\ batch = IdleBatch
    /\ upload = IdleUpload
    /\ timer = NoTimer
    /\ hist = [epoch |-> 0, detectedEpoch |-> 0, opsDone |-> 0, lastKind |-> "none",
               lastOk |-> FALSE, unfound |-> -1]

\* a call of the SettingsManager has come to its await of saveData with the
\* settings it goes on to save; before: the settings when the call began
AwaitSaveData(kind, settings) ==
    /\ managerSettings' = settings
    /\ op' = [kind |-> kind, pc |-> "saving",
              before |-> IF op.pc = "idle" THEN managerSettings ELSE op.before]
    /\ UNCHANGED <<cmdVars, relayVars, pluginSettings, uploaderSettings, detectedUpicPath,
                   availabilityCache, lastCheckTime, now, env, disc, hist>>

\* a call of the SettingsManager has come to its end
CallReturns(kind, settings, ok) ==
    /\ managerSettings' = settings
    /\ op' = [kind |-> "none", pc |-> "idle", before |-> op.before]
    /\ hist' = [hist EXCEPT !.opsDone = @ + 1, !.lastKind = kind, !.lastOk = ok]
    /\ UNCHANGED <<cmdVars, relayVars, pluginSettings, uploaderSettings, detectedUpicPath,
                   availabilityCache, lastCheckTime, now, env, disc>>

\* loadSettings() up to its await of loadData
loadSettings ==
    /\ op.pc = "idle"
    /\ hist.opsDone < MaxOps
    /\ op' = [kind |-> "load", pc |-> "loading", before |-> managerSettings]
    /\ UNCHANGED <<cmdVars, relayVars, pluginSettings, managerSettings, uploaderSettings,
                   detectedUpicPath, availabilityCache, lastCheckTime, now, env, disc, hist>>

\* loadData has answered.  Saved data are merged over the defaults and
\* validated; with no data the defaults are taken and saved; when loadData threw
\* the catch takes the defaults and saves them
LoadDataReturns(data) ==
    /\ op.pc = "loading"
    /\ IF data.type = "object"
       THEN CallReturns("load", validateSettingsFields(Merge(DefaultSettings, data.fields)), TRUE)
       ELSE AwaitSaveData(IF data.type = "throws" THEN "loadCatch" ELSE "load", DefaultSettings)

\* saveSettings(newSettings) up to its await of saveData; called without
\* newSettings it saves the settings as they are
saveSettingsBegins(newSettings) ==
    /\ op.pc = "idle"
    /\ hist.opsDone < MaxOps
    /\ AwaitSaveData("save", IF newSettings.type = "object"
                             THEN validateSettingsFields(Merge(managerSettings,
                                                               newSettings.fields))
                             ELSE managerSettings)

\* updateSetting(key, value): saveSettings({ [key]: value })
updateSetting(key, value) ==
    /\ op.pc = "idle"
    /\ hist.opsDone < MaxOps
    /\ AwaitSaveData("update", validateSettingsFields(Merge(managerSettings,
                                                            [k \in {key} |-> value])))

\* importSettings(jsonString): a text that does not parse to an object makes it
\* throw before anything is touched
importSettings(jsonString) ==
    /\ op.pc = "idle"
    /\ hist.opsDone < MaxOps
    /\ LET importedSettings == JSONparse(jsonString)
       IN IF importedSettings.type = "object"
          THEN AwaitSaveData("import",
                             validateSettingsFields(
                                 Merge(managerSettings,
                                       Merge(DefaultSettings, importedSettings.fields))))
          ELSE CallReturns("import", managerSettings, FALSE)

\* resetSettings(): the defaults are taken, then saveSettings()
resetSettings ==
    /\ op.pc = "idle"
    /\ hist.opsDone < MaxOps
    /\ AwaitSaveData("reset", DefaultSettings)

\* saveData has answered; ok = FALSE when it threw.  saveSettings logs and
\* rethrows; loadSettings catches that, takes the defaults and saves once more,
\* and swallows what this second save throws
SaveDataReturns(ok) ==
    /\ op.pc = "saving"
    /\ IF ~ok /\ op.kind = "load"
       THEN AwaitSaveData("loadCatch", DefaultSettings)
       ELSE CallReturns(op.kind, managerSettings, ok \/ op.kind = "loadCatch")

SettingsNext ==
    \/ loadSettings
    \/ \E data \in LoadedData \cup {[type |-> "throws", fields |-> <<>>]} : LoadDataReturns(data)
    \/ \E newSettings \in LoadedData : saveSettingsBegins(newSettings)
    \/ \E key \in SettingKeys, value \in JsValues : updateSetting(key, value)
    \/ \E jsonString \in JsonTexts : importSettings(jsonString)
    \/ resetSettings
    \/ \E ok \in BOOLEAN : SaveDataReturns(ok)

SpecSettings == SettingsInit /\ [][SettingsNext]_vars

\* C35: when saveData throws during saveSettings(newSettings), updateSetting or
\* importSettings, the call ends in an error and the SettingsManager's settings
\* are again what they were when the call began
C35_FailedSaveKeepsSettings ==
    [][(op.pc = "saving" /\ op.kind \in {"save", "update", "import"} /\ SaveDataReturns(FALSE)) =>
           /\ ~hist'.lastOk
           /\ managerSettings' = op.before]_vars

\* what the settings are said to be at all times
ValidSettings(settings) ==
    /\ settings.upicPath.type = "string" /\ Len(settings.upicPath.str) > 0
    /\ settings.uploadTimeout.type = "number"
    /\ settings.uploadTimeout # JsNaN
    /\ settings.uploadTimeout.num > 0
    /\ settings.supportedFormats.type = "array"
    /\ Len(settings.supportedFormats.arr) > 0
    /\ \A i \in DOMAIN settings.supportedFormats.arr :
           LET format == settings.supportedFormats.arr[i]
           IN format.type = "string" /\ \E j \in DOMAIN format.str : ~IsSpace(format.str[j])
    /\ settings.autoUpload.type = "boolean"
    /\ settings.deleteLocalFile.type = "boolean"
    /\ settings.showNotifications.type = "boolean"

\* C36: whatever loadSettings, saveSettings, updateSetting, importSettings and
\* resetSettings were called with and whatever loadData and saveData did, the
\* SettingsManager's settings are valid: a non-empty upicPath string, a positive
\* uploadTimeout, a non-empty list of non-blank format strings, three booleans
C36_SettingsStayValid == ValidSettings(managerSettings)

\* a list of formats with a blank and a number in it was handed over, and the
\* settings hold the one format that was left after filtering
C36_Witness ==
    /\ op.pc = "idle"
    /\ hist.lastKind \in {"update", "import"}
    /\ hist.lastOk
    /\ managerSettings.supportedFormats = JsArray(<<JsString(<<"g", "i", "f">>)>>)

====
